---- MODULE Spec2Model ----
(***************************************************************************)
(* Sigmund bridge and session protocol.                                    *)
(*                                                                         *)
(* Socket Bridge:      opensesame_extensions/sigmund/sigmund/              *)
(*                     websocket_server.py                                 *)
(* Session Controller: dock_widget.py (SigmundDockWidget, variant "dock")  *)
(*                     and sigmund.py (Sigmund extension, variant "ext")   *)
(*                                                                         *)
(* The two queues are multiprocessing.Queue objects shared by the          *)
(* controller (GUI thread) and the bridge (a separate process running one  *)
(* asyncio loop plus executor threads blocked in Queue.get).               *)
(***************************************************************************)
EXTENDS Integers, Sequences, FiniteSets, TLC

(***************************************************************************)
(* Bounds of the model                                                     *)
(***************************************************************************)
MaxConn == 2
MaxStarts == 2
MaxSends == 1
MaxRetry == 1
MaxDialogs == 1
ScriptLen == 2

(***************************************************************************)
(* Strings.  A raw string on a queue or on the socket is described by what *)
(* the code asks of it: the sentinel it starts with (pre), whether text    *)
(* follows that prefix (more), and the value json.loads gives (val,        *)
(* JSONDecodeError when the text is not JSON).  The ghost field src tells  *)
(* who produced the string; no operation of the program reads it.          *)
(***************************************************************************)
JSONDecodeError == [isObj |-> FALSE, action |-> "JSONDecodeError", message |-> "", content |-> <<>>]

Sentinel(s, src, n) == [pre |-> s, more |-> FALSE, val |-> JSONDecodeError, src |-> src, n |-> n]

\* json.dumps(dict): a string that starts with "{" and that json.loads maps
\* back to the dict
JsonDumps(obj, src, n) == [pre |-> "{", more |-> TRUE, val |-> obj, src |-> src, n |-> n]

\* json.loads(raw_msg)
JsonLoads(raw) == raw.val

\* raw_msg.startswith(prefix)
StartsWith(raw, prefix) == raw.pre = prefix

\* raw_msg == sentinel
IsExactly(raw, sentinel) == raw.pre = sentinel /\ ~raw.more

(***************************************************************************)
(* Workspace contents: sequences of lines.  "I" is a line that starts with *)
(* '# Important instructions:'; NoneContent is Python's None.              *)
(***************************************************************************)
NoneContent == <<"None">>
EmptyContent == <<>>

Envelope(action, message, content) == [isObj |-> TRUE, action |-> action, message |-> message, content |-> content]

\* the frames a remote client may send, as the strings read from the socket
AiFrame(content) == JsonDumps(Envelope("ai_message", "reply", content), "client", 0)
TokenFrame == JsonDumps(Envelope("token", "secret", <<>>), "client", 0)
CancelFrame == JsonDumps(Envelope("cancel_message", "", <<>>), "client", 0)
\* an object whose action no handler knows
BogusFrame == JsonDumps(Envelope("bogus", "", <<>>), "client", 0)
\* an object without the key "action": data.get("action", None) is None
NoActionFrame == JsonDumps(Envelope("None", "", <<>>), "client", 0)
\* text that is not JSON and starts with no sentinel
GarbageFrame == [pre |-> "text", more |-> TRUE, val |-> JSONDecodeError, src |-> "client", n |-> 0]
\* what json.loads gives for a JSON list: a value that is not a dict
JsonNonObject == [isObj |-> FALSE, action |-> "list", message |-> "", content |-> <<>>]
NonObjectFrame == [pre |-> "[", more |-> TRUE, val |-> JsonNonObject, src |-> "client", n |-> 0]
\* a frame whose text is that of a sentinel of the bridge
SpoofFrame(sentinel) == Sentinel(sentinel, "client", 0)

\* what the remote client sends over its connections, in order
Scripts ==
    { [i \in 1..ScriptLen |-> AiFrame(<<"b">>)],
      [i \in 1..ScriptLen |-> IF i = 1 THEN AiFrame(<<"a">>) ELSE TokenFrame],
      [i \in 1..ScriptLen |-> IF i = 1 THEN CancelFrame ELSE AiFrame(<<"a">>)] }

\* frames of a client that does not keep to the protocol
FrameScripts ==
    { [i \in 1..ScriptLen |-> IF i = 1 THEN GarbageFrame ELSE AiFrame(<<"b">>)],
      [i \in 1..ScriptLen |-> IF i = 1 THEN NonObjectFrame ELSE BogusFrame],
      [i \in 1..ScriptLen |-> IF i = 1 THEN SpoofFrame("FAILED_TO_START") ELSE NoActionFrame] }

ConnIds == 1..MaxConn
NoMsg == Sentinel("", "none", 0)

\* self._retry before the first send_user_message: the attribute is absent
NoRetry == -1
\* the default of send_user_message's parameter retry
DefaultRetry == 1

VARIABLES
    variant,            \* which controller class runs: "dock" or "ext"
    state,              \* self._state
    srvProc,            \* self._server_process: "None" or "Process"
    hasQueues,          \* self._to_main_queue / _to_server_queue are not None
    inbound,            \* to_main_queue
    outbound,           \* to_server_queue
    pollTimer,          \* self._poll_timer is running
    chat,               \* self.chat_widget: exists, isEnabled(), its messages
    retry,              \* self._retry
    cstack,             \* the GUI thread's call stack: the diff dialogs whose exec() runs
    ws,                 \* the workspace collaborator's content
    baseline,           \* the collaborator's snapshot (content / _content)
    uncaught,           \* an exception left the poll slot
    resumes,            \* self._n_resumes_left of OpenSesameSigmundWidget
    sigmund_token,      \* cfg.sigmund_token
    call,               \* the call of a function under study: its arguments and its result
    bridge,             \* the bridge process: "none", "starting", "running", "dead"
    client_connected,   \* websocket_server.client_connected
    conns,              \* the connections' handler, reader and writer coroutines
    getters,            \* executor threads inside to_server_queue.get(), oldest first
    orphan,             \* an abandoned bridge process still holds the port
    script,             \* the frames the client will send
    nRead,              \* how many of them the reader has received
    due,                \* ghost: envelopes put on outbound that the live connection has not been sent
    fifo,               \* ghost: "ok", or how a sent frame departed from the order of due
    fresh,              \* ghost: the envelopes put since the live connection's CLIENT_CONNECTED
    startPair,          \* ghost: the last one or two consecutive start calls
    lastSet,            \* ghost: how the collaborator's set() was last called
    nStarts,            \* ghost: start calls that created queues
    nSends,             \* ghost: user-initiated sends that enqueued
    attempt,            \* ghost: the budget of the last user-initiated send and what followed it
    nDisp               \* ghost: the client frames the poller has taken so far

ctlVars == <<variant, state, srvProc, hasQueues, pollTimer, chat, retry, cstack, ws, baseline, uncaught, resumes, sigmund_token, call>>
queueVars == <<inbound, outbound>>
bridgeVars == <<bridge, client_connected, conns, getters, orphan>>
envVars == <<script, nRead>>
ghostVars == <<due, fifo, fresh, startPair, lastSet, nStarts, nSends, attempt, nDisp>>
vars == <<ctlVars, queueVars, bridgeVars, envVars, ghostVars>>

\* ghost: n envelopes at the end of outbound were put after the live
\* connection's CLIENT_CONNECTED was pushed; hand tells whether the envelope
\* that the write loop holds is such an envelope
NoFresh == [n |-> 0, hand |-> FALSE]

NoConn == [h |-> "none", r |-> "none", w |-> "none", hand |-> NoMsg, arrivedFree |-> FALSE]
GoneConn == [NoConn EXCEPT !.h = "gone"]
\* a connection whose handler has returned: both tasks are finished or cancelled
DoneConn == [NoConn EXCEPT !.h = "done", !.r = "ended", !.w = "ended"]
NoAttempt == [budget |-> NoRetry, fails |-> 0, resubs |-> 0, terminals |-> 0, resumed |-> 0, reminded |-> 0]
\* no function is under study
NoCall == [fn |-> "none"]
NoPair == [calls |-> 0, firstOk |-> FALSE, spawns |-> 0, trans |-> 0]

InitOf(variants, scripts) ==
    /\ variant \in variants
    /\ state = "not_listening"
    /\ srvProc = "None"
    /\ hasQueues = FALSE
    /\ inbound = <<>>
    /\ outbound = <<>>
    /\ pollTimer = FALSE
    /\ chat = [exists |-> FALSE, enabled |-> TRUE, msgs |-> <<>>]
    /\ retry = NoRetry
    /\ cstack = <<>>
    /\ ws = <<"a">>
    /\ baseline = NoneContent
    /\ uncaught = FALSE
    /\ resumes = 0
    /\ sigmund_token = ""
    /\ call = NoCall
    /\ bridge = "none"
    /\ client_connected = FALSE
    /\ conns = [c \in ConnIds |-> NoConn]
    /\ getters = <<>>
    /\ orphan = FALSE
    /\ script \in scripts
    /\ nRead = 0
    /\ due = <<>>
    /\ fifo = "ok"
    /\ fresh = NoFresh
    /\ startPair = NoPair
    /\ lastSet = [action |-> "none", changed |-> "not asked", accepted |-> "not asked"]
    /\ nStarts = 0
    /\ nSends = 0
    /\ attempt = NoAttempt
    /\ nDisp = 0

Init == InitOf({"dock", "ext"}, Scripts)

(***************************************************************************)
(* Socket Bridge (websocket_server.py)                                     *)
(***************************************************************************)
Live(c) == conns[c].h = "echo"

\* ghost: the place of a sent frame among the envelopes due, 0 if it is not one
FirstIndex(seq, f) ==
    IF \E i \in 1..Len(seq) : seq[i] = f
    THEN CHOOSE i \in 1..Len(seq) : seq[i] = f /\ \A j \in 1..(i - 1) : seq[j] # f
    ELSE 0

\* start_server: websockets.serve / run_until_complete succeeded
BridgeStartOk ==
    /\ bridge = "starting"
    /\ ~orphan
    /\ bridge' = "running"
    /\ UNCHANGED <<ctlVars, queueVars, client_connected, conns, getters, orphan, envVars, ghostVars>>

\* mutant: the except clause of start_server exits without telling the
\* main process
BridgeStartFailSilent ==
    /\ bridge = "starting"
    /\ bridge' = "dead"
    /\ UNCHANGED <<ctlVars, queueVars, client_connected, conns, getters, orphan, envVars, ghostVars>>

\* start_server: an exception while starting (the port cannot be bound)
BridgeStartFail ==
    /\ bridge = "starting"
    /\ bridge' = "dead"
    /\ inbound' = Append(inbound, Sentinel("FAILED_TO_START", "bridge", 0))
    /\ UNCHANGED <<ctlVars, outbound, client_connected, conns, getters, orphan, envVars, ghostVars>>

\* a client completes the handshake: websockets creates the server_handler
\* coroutine for it, which has not run yet
Connect(c) ==
    /\ bridge = "running"
    /\ conns[c].h = "none"
    /\ \A d \in ConnIds : d < c => conns[d].h # "none"
    /\ conns' = [conns EXCEPT ![c] = [NoConn EXCEPT !.h = "new", !.arrivedFree = ~client_connected]]
    /\ UNCHANGED <<ctlVars, queueVars, bridge, client_connected, getters, orphan, envVars, ghostVars>>

\* mutant: the refusal sits inside the try block, so that the finally clause
\* also runs for a refused connection
ServerHandlerFinallyOnRefusal(c) ==
    /\ bridge = "running"
    /\ conns[c].h = "new"
    /\ IF client_connected
       THEN /\ conns' = [conns EXCEPT ![c].h = "refused"]
            /\ client_connected' = FALSE
            /\ inbound' = Append(inbound, Sentinel("CLIENT_DISCONNECTED", "bridge", c))
            /\ UNCHANGED <<getters, due, fifo, fresh>>
       ELSE /\ client_connected' = TRUE
            /\ inbound' = Append(inbound, Sentinel("CLIENT_CONNECTED", "bridge", c))
            /\ conns' = [conns EXCEPT ![c].h = "echo", ![c].r = "run", ![c].w = "get"]
            /\ getters' = Append(getters, c)
            /\ due' = outbound
            /\ fifo' = "ok"
            /\ fresh' = NoFresh
    /\ UNCHANGED <<ctlVars, outbound, bridge, orphan, envVars, startPair, lastSet, nStarts, nSends, attempt, nDisp>>

\* mutant: an await between the check of the slot and its occupation; the
\* handler goes by what the slot was when the connection arrived
ServerHandlerSuspendsAfterCheck(c) ==
    /\ bridge = "running"
    /\ conns[c].h = "new"
    /\ IF ~conns[c].arrivedFree
       THEN /\ conns' = [conns EXCEPT ![c].h = "refused"]
            /\ UNCHANGED <<client_connected, inbound, getters, due, fifo, fresh>>
       ELSE /\ client_connected' = TRUE
            /\ inbound' = Append(inbound, Sentinel("CLIENT_CONNECTED", "bridge", c))
            /\ conns' = [conns EXCEPT ![c].h = "echo", ![c].r = "run", ![c].w = "get"]
            /\ getters' = Append(getters, c)
            /\ due' = outbound
            /\ fifo' = "ok"
            /\ fresh' = NoFresh
    /\ UNCHANGED <<ctlVars, outbound, bridge, orphan, envVars, startPair, lastSet, nStarts, nSends, attempt, nDisp>>

\* server_handler: the slot is checked and occupied with no suspension point
\* between the two.  A refused connection is closed and the handler returns
\* before the try block.  An accepted one enters echo, whose tasks run up to
\* their first await: write_task's run_in_executor starts a thread that
\* calls to_server_queue.get()
ServerHandler(c) ==
    /\ bridge = "running"
    /\ conns[c].h = "new"
    /\ IF client_connected
       THEN /\ conns' = [conns EXCEPT ![c].h = "refused"]
            /\ UNCHANGED <<client_connected, inbound, getters, due, fifo, fresh>>
       ELSE /\ client_connected' = TRUE
            /\ inbound' = Append(inbound, Sentinel("CLIENT_CONNECTED", "bridge", c))
            /\ conns' = [conns EXCEPT ![c].h = "echo", ![c].r = "run", ![c].w = "get"]
            /\ getters' = Append(getters, c)
            /\ due' = outbound
            /\ fifo' = "ok"
            /\ fresh' = NoFresh
    /\ UNCHANGED <<ctlVars, outbound, bridge, orphan, envVars, startPair, lastSet, nStarts, nSends, attempt, nDisp>>

\* mutant: read_task decodes the frame and puts the decoded value
ReadTaskDecodes(c) ==
    /\ bridge = "running"
    /\ conns[c].r = "run"
    /\ nRead < Len(script)
    /\ inbound' = Append(inbound, [script[nRead + 1] EXCEPT !.n = nRead + 1, !.pre = "decoded"])
    /\ nRead' = nRead + 1
    /\ UNCHANGED <<ctlVars, outbound, bridgeVars, script, ghostVars>>

\* mutant: the cancelled read_task goes on reading
ReadTaskOutlivesCancel(c) ==
    /\ bridge = "running"
    /\ conns[c].r \in {"run", "ended"}
    /\ nRead < Len(script)
    /\ inbound' = Append(inbound, [script[nRead + 1] EXCEPT !.n = nRead + 1])
    /\ nRead' = nRead + 1
    /\ UNCHANGED <<ctlVars, outbound, bridgeVars, script, ghostVars>>

\* read_task: one frame arrives and is put on to_main_queue
ReadTask(c) ==
    /\ bridge = "running"
    /\ conns[c].r = "run"
    /\ nRead < Len(script)
    /\ inbound' = Append(inbound, [script[nRead + 1] EXCEPT !.n = nRead + 1])
    /\ nRead' = nRead + 1
    /\ UNCHANGED <<ctlVars, outbound, bridgeVars, script, ghostVars>>

\* read_task ends: the peer closed the connection, or it broke
ReadTaskEnds(c) ==
    /\ bridge = "running"
    /\ conns[c].r = "run"
    /\ conns' = [conns EXCEPT ![c].r = "done"]
    /\ UNCHANGED <<ctlVars, queueVars, bridge, client_connected, getters, orphan, envVars, ghostVars>>

\* blocking_queue_get returns in the oldest thread blocked in it (that thread
\* holds the queue's read lock).  The result reaches write_task only if
\* write_task is still awaiting it; the result of a cancelled await is dropped.
BlockingQueueGet ==
    /\ bridge = "running"
    /\ getters # <<>>
    /\ outbound # <<>>
    /\ LET c == Head(getters) IN
        /\ getters' = Tail(getters)
        /\ outbound' = Tail(outbound)
        /\ conns' = IF conns[c].w = "get"
                    THEN [conns EXCEPT ![c].w = "send", ![c].hand = Head(outbound)]
                    ELSE conns
        /\ fresh' = [n |-> IF fresh.n = Len(outbound) THEN fresh.n - 1 ELSE fresh.n,
                      hand |-> IF conns[c].w = "get" THEN fresh.n = Len(outbound) ELSE fresh.hand]
    /\ UNCHANGED <<ctlVars, inbound, bridge, client_connected, orphan, envVars,
                   due, fifo, startPair, lastSet, nStarts, nSends, attempt, nDisp>>

\* write_task: websocket.send(msg_to_send) returns, and the loop asks for
\* the next message
WriteTaskSend(c) ==
    /\ bridge = "running"
    /\ conns[c].w = "send"
    /\ conns[c].r = "run"
    /\ conns' = [conns EXCEPT ![c].w = "get", ![c].hand = NoMsg]
    /\ getters' = Append(getters, c)
    /\ LET i == FirstIndex(due, conns[c].hand) IN
        /\ due' = IF i = 0 THEN due ELSE SubSeq(due, i + 1, Len(due))
        /\ fifo' = IF i = 0 THEN "not due" ELSE IF i > 1 THEN "skipped" ELSE fifo
    /\ fresh' = [fresh EXCEPT !.hand = FALSE]
    /\ UNCHANGED <<ctlVars, queueVars, bridge, client_connected, orphan, envVars, startPair, lastSet, nStarts, nSends, attempt, nDisp>>

\* write_task: websocket.send raises ConnectionClosed
WriteTaskEnds(c) ==
    /\ bridge = "running"
    /\ conns[c].w = "send"
    /\ conns' = [conns EXCEPT ![c].w = "done", ![c].hand = NoMsg]
    /\ fresh' = [fresh EXCEPT !.hand = FALSE]
    /\ UNCHANGED <<ctlVars, queueVars, bridge, client_connected, getters, orphan, envVars,
                   due, fifo, startPair, lastSet, nStarts, nSends, attempt, nDisp>>

\* mutant: server_handler awaits echo without a finally clause, and the
\* cancellation of the pending task ends the handler early
EchoReturnsWithoutFinally(c) ==
    /\ bridge = "running"
    /\ conns[c].h = "echo"
    /\ conns[c].r = "done" \/ conns[c].w = "done"
    /\ conns' = [conns EXCEPT ![c] = DoneConn]
    /\ due' = <<>>
    /\ fifo' = "ok"
    /\ fresh' = NoFresh
    /\ UNCHANGED <<ctlVars, queueVars, bridge, client_connected, getters, orphan, envVars,
                   startPair, lastSet, nStarts, nSends, attempt, nDisp>>

\* echo after asyncio.wait returns, and server_handler's finally clause
EchoReturns(c) ==
    /\ bridge = "running"
    /\ conns[c].h = "echo"
    /\ conns[c].r = "done" \/ conns[c].w = "done"
    /\ conns' = [conns EXCEPT ![c] = DoneConn]
    /\ client_connected' = FALSE
    /\ inbound' = Append(inbound, Sentinel("CLIENT_DISCONNECTED", "bridge", c))
    /\ due' = <<>>
    /\ fifo' = "ok"
    /\ fresh' = NoFresh
    /\ UNCHANGED <<ctlVars, outbound, bridge, getters, orphan, envVars, startPair, lastSet, nStarts, nSends, attempt, nDisp>>

BridgeNext ==
    \/ BridgeStartOk
    \/ BridgeStartFail
    \/ \E c \in ConnIds :
        \/ Connect(c)
        \/ ServerHandler(c)
        \/ ReadTask(c)
        \/ ReadTaskEnds(c)
        \/ WriteTaskSend(c)
        \/ WriteTaskEnds(c)
        \/ EchoReturns(c)
    \/ BlockingQueueGet

(***************************************************************************)
(* Workspace collaborator.  The dock widget is handed its collaborator by  *)
(* set_workspace_manager and uses get, set, has_changed, strip_content and *)
(* the snapshot _content, which get() records (workspace.py 8-19); ws is   *)
(* what get() returns and set() replaces, baseline is that snapshot.       *)
(* set() may raise: its outcome is the input setOk of the step calling it. *)
(***************************************************************************)
\* WorkspaceManager.strip_content
StripContent(content) ==
    IF content = NoneContent THEN <<>> ELSE SelectSeq(content, LAMBDA line : line # "I")

\* WorkspaceManager.has_changed
HasChanged(content, base) ==
    IF content = EmptyContent \/ content = NoneContent THEN FALSE
    ELSE IF content = base \/ content = StripContent(base) THEN FALSE
    ELSE TRUE

(***************************************************************************)
(* Session Controller.  The handlers are functions of the controller's     *)
(* fields k; raised marks an exception that leaves the handler.            *)
(***************************************************************************)
Ctl ==
    [state |-> state, chat |-> chat, outbound |-> outbound, retry |-> retry,
     cstack |-> cstack, ws |-> ws, baseline |-> baseline, due |-> due, fresh |-> fresh,
     lastSet |-> lastSet, attempt |-> attempt, raised |-> FALSE, logs |-> 0,
     resumes |-> resumes, sigmund_token |-> sigmund_token]

\* ghost: the circumstances of a call of the collaborator's set()
SetCall(action, changed, accepted) == [action |-> action, changed |-> changed, accepted |-> accepted]
NoSetCall == SetCall("none", "not asked", "not asked")

\* a DiffDialog whose exec() has not returned yet
DialogFrame(content) == [k |-> "dialog", content |-> content]
Top(stack) == stack[Len(stack)]
Pop(stack) == SubSeq(stack, 1, Len(stack) - 1)

\* to_server_queue.put(json.dumps(obj))
Put(k, obj) ==
    LET raw == JsonDumps(obj, "controller", 0) IN
    [k EXCEPT !.outbound = Append(@, raw),
              !.due = IF client_connected THEN Append(@, raw) ELSE @,
              !.fresh.n = IF client_connected THEN @ + 1 ELSE @]

\* mutant: the state is not changed while the input is disabled
UpdateStateUnlessBusy(k, new_state) ==
    IF new_state = k.state \/ (k.chat.exists /\ ~k.chat.enabled) THEN k
    ELSE [k EXCEPT !.state = new_state,
                   !.chat = IF new_state = "connected" /\ ~k.chat.exists
                            THEN [exists |-> TRUE, enabled |-> TRUE, msgs |-> <<>>]
                            ELSE @]

\* SigmundDockWidget._update_state with refresh_ui
UpdateState(k, new_state) ==
    IF new_state = k.state THEN k
    ELSE [k EXCEPT !.state = new_state,
                   !.chat = IF new_state = "connected" /\ ~k.chat.exists
                            THEN [exists |-> TRUE, enabled |-> TRUE, msgs |-> <<>>]
                            ELSE @]

\* mutant: the token is requested once by the handler and once more by the
\* state change
RequestTokenTwice(k) ==
    IF hasQueues
    THEN Put(Put(k, Envelope("get_token", "", NoneContent)), Envelope("get_token", "", NoneContent))
    ELSE k

\* SigmundDockWidget._request_token
RequestToken(k) ==
    IF hasQueues THEN Put(k, Envelope("get_token", "", NoneContent)) ELSE k

\* mutant: the envelope carries the collaborator's last snapshot instead of
\* what get() returns now
SendUserMessageStale(k, text, workspace_content, retry_arg) ==
    IF text = "" \/ ~hasQueues THEN k
    ELSE LET content == IF workspace_content = NoneContent THEN k.baseline ELSE workspace_content
             k1 == IF workspace_content = NoneContent THEN [k EXCEPT !.baseline = k.ws] ELSE k
             k2 == [k1 EXCEPT !.retry = retry_arg,
                              !.chat = IF @.exists THEN [@ EXCEPT !.enabled = FALSE] ELSE @]
         IN  Put(k2, Envelope("user_message", text, content))

\* SigmundDockWidget.send_user_message
SendUserMessage(k, text, workspace_content, retry_arg) ==
    IF text = "" \/ ~hasQueues THEN k
    ELSE LET content == IF workspace_content = NoneContent THEN k.ws ELSE workspace_content
             k1 == IF workspace_content = NoneContent THEN [k EXCEPT !.baseline = k.ws] ELSE k
             k2 == [k1 EXCEPT !.retry = retry_arg,
                              !.chat = IF @.exists THEN [@ EXCEPT !.enabled = FALSE] ELSE @]
         IN  Put(k2, Envelope("user_message", text, content))

ChatAppend(k, kind) == [k EXCEPT !.chat.msgs = Append(@, kind)]

\* ghost: count the envelope an automatic resubmission put on the queue
Resubmitted(k, sent) ==
    IF sent.outbound # k.outbound THEN [sent EXCEPT !.attempt.resubs = @ + 1] ELSE sent

\* mutant: the resubmission passes the budget on without decrementing it
SetFailedKeepsBudget(k, content) ==
    LET k1 == ChatAppend([k EXCEPT !.attempt.fails = @ + 1], "err") IN
    IF k1.retry = NoRetry THEN [k1 EXCEPT !.raised = TRUE]
    ELSE IF k1.retry = 0 THEN ChatAppend([k1 EXCEPT !.attempt.terminals = @ + 1], "max")
    ELSE Resubmitted(k1, SendUserMessage(k1, "err", content, k1.retry))

\* mutant: the error is resubmitted or given up without being shown in the
\* conversation
SetFailedSilent(k, content) ==
    LET k1 == [k EXCEPT !.attempt.fails = @ + 1] IN
    IF k1.retry = NoRetry THEN [k1 EXCEPT !.raised = TRUE]
    ELSE IF k1.retry = 0 THEN ChatAppend([k1 EXCEPT !.attempt.terminals = @ + 1], "max")
    ELSE Resubmitted(k1, SendUserMessage(k1, "err", content, k1.retry - 1))

\* the except clause around workspace_manager.set in _on_message_received
SetFailed(k, content) ==
    LET k1 == ChatAppend([k EXCEPT !.attempt.fails = @ + 1], "err") IN
    IF k1.retry = NoRetry THEN [k1 EXCEPT !.raised = TRUE]
    ELSE IF k1.retry = 0 THEN ChatAppend([k1 EXCEPT !.attempt.terminals = @ + 1], "max")
    ELSE Resubmitted(k1, SendUserMessage(k1, "err", content, k1.retry - 1))

\* mutant: the error is shown in the conversation as well
LogErrorToChat(k) == [k EXCEPT !.logs = @ + 1, !.chat.msgs = Append(@, "err")]

\* logger.error / oslogger.error
LogError(k) == [k EXCEPT !.logs = @ + 1]

\* mutant: the diff dialog is shown for every ai_message, has_changed is
\* not asked
OnMessageReceivedAlwaysAsks(k, data) ==
    IF ~data.isObj THEN [k EXCEPT !.raised = TRUE]
    ELSE IF ~k.chat.exists THEN k
    ELSE CASE data.action = "token" -> [k EXCEPT !.sigmund_token = data.message]
           [] data.action = "clear_messages" -> [k EXCEPT !.chat.msgs = <<>>]
           [] data.action = "cancel_message" -> [k EXCEPT !.chat.enabled = TRUE]
           [] data.action = "user_message" -> ChatAppend(k, "user")
           [] data.action = "ai_message" ->
                [ChatAppend(k, "ai") EXCEPT !.chat.enabled = TRUE,
                                            !.cstack = Append(@, DialogFrame(data.content))]
           [] OTHER -> LogError(k)

\* mutant: cancel_message is taken and nothing is done about it
OnMessageReceivedIgnoresCancel(k, data) ==
    IF ~data.isObj THEN [k EXCEPT !.raised = TRUE]
    ELSE IF ~k.chat.exists THEN k
    ELSE CASE data.action = "token" -> [k EXCEPT !.sigmund_token = data.message]
           [] data.action = "clear_messages" -> [k EXCEPT !.chat.msgs = <<>>]
           [] data.action = "cancel_message" -> k
           [] data.action = "user_message" -> ChatAppend(k, "user")
           [] data.action = "ai_message" ->
                LET k1 == [ChatAppend(k, "ai") EXCEPT !.chat.enabled = TRUE] IN
                IF HasChanged(data.content, k1.baseline)
                THEN [k1 EXCEPT !.cstack = Append(@, DialogFrame(data.content))]
                ELSE k1
           [] OTHER -> LogError(k)

\* mutant: the token envelope is taken and its message is not kept
OnMessageReceivedDropsToken(k, data) ==
    IF ~data.isObj THEN [k EXCEPT !.raised = TRUE]
    ELSE IF ~k.chat.exists THEN k
    ELSE CASE data.action = "token" -> k
           [] data.action = "clear_messages" -> [k EXCEPT !.chat.msgs = <<>>]
           [] data.action = "cancel_message" -> [k EXCEPT !.chat.enabled = TRUE]
           [] data.action = "user_message" -> ChatAppend(k, "user")
           [] data.action = "ai_message" ->
                LET k1 == [ChatAppend(k, "ai") EXCEPT !.chat.enabled = TRUE] IN
                IF HasChanged(data.content, k1.baseline)
                THEN [k1 EXCEPT !.cstack = Append(@, DialogFrame(data.content))]
                ELSE k1
           [] OTHER -> LogError(k)

\* SigmundDockWidget._on_message_received
OnMessageReceived(k, data) ==
    IF ~data.isObj THEN [k EXCEPT !.raised = TRUE]
    ELSE IF ~k.chat.exists THEN k
    ELSE CASE data.action = "token" -> [k EXCEPT !.sigmund_token = data.message]
           [] data.action = "clear_messages" -> [k EXCEPT !.chat.msgs = <<>>]
           [] data.action = "cancel_message" -> [k EXCEPT !.chat.enabled = TRUE]
           [] data.action = "user_message" -> ChatAppend(k, "user")
           [] data.action = "ai_message" ->
                LET k1 == [ChatAppend(k, "ai") EXCEPT !.chat.enabled = TRUE] IN
                IF HasChanged(data.content, k1.baseline)
                THEN [k1 EXCEPT !.cstack = Append(@, DialogFrame(data.content))]
                ELSE k1
           [] OTHER -> LogError(k)

\* mutant: json.loads is called outside a try statement
HandleIncomingRawUncaught(k, raw) ==
    IF StartsWith(raw, "[DEBUG]") THEN k
    ELSE IF StartsWith(raw, "FAILED_TO_START") THEN UpdateState(k, "failed")
    ELSE IF IsExactly(raw, "CLIENT_CONNECTED")
    THEN LET k1 == UpdateState(k, "connected")
             k2 == IF k1.chat.exists THEN [k1 EXCEPT !.chat.msgs = <<>>] ELSE k1
         IN  RequestToken(k2)
    ELSE IF IsExactly(raw, "CLIENT_DISCONNECTED")
    THEN IF srvProc # "None" THEN UpdateState(k, "listening") ELSE k
    ELSE IF JsonLoads(raw) = JSONDecodeError THEN [k EXCEPT !.raised = TRUE]
    ELSE OnMessageReceived(k, JsonLoads(raw))

\* SigmundDockWidget._handle_incoming_raw
HandleIncomingRaw(k, raw) ==
    IF StartsWith(raw, "[DEBUG]") THEN k
    ELSE IF StartsWith(raw, "FAILED_TO_START") THEN UpdateState(k, "failed")
    ELSE IF IsExactly(raw, "CLIENT_CONNECTED")
    THEN LET k1 == UpdateState(k, "connected")
             k2 == IF k1.chat.exists THEN [k1 EXCEPT !.chat.msgs = <<>>] ELSE k1
         IN  RequestToken(k2)
    ELSE IF IsExactly(raw, "CLIENT_DISCONNECTED")
    THEN IF srvProc # "None" THEN UpdateState(k, "listening") ELSE k
    ELSE IF JsonLoads(raw) = JSONDecodeError THEN LogError(k)
    ELSE OnMessageReceived(k, JsonLoads(raw))

\* mutant: the result of exec() is not tested, the content is applied
\* whichever button closed the dialog
DialogReturnsAppliesAnyway(k, accepted, setOk) ==
    LET content == Top(k.cstack).content
        k1 == [k EXCEPT !.cstack = Pop(@)]
        k2 == [k1 EXCEPT !.lastSet = SetCall("ai_message", "yes", "no")]
    IN  IF setOk THEN [k2 EXCEPT !.ws = content] ELSE SetFailed(k2, content)

\* DiffDialog(...).exec() returns in _on_message_received: the rest of the
\* ai_message branch
DialogReturns(k, accepted, setOk) ==
    LET content == Top(k.cstack).content
        k1 == [k EXCEPT !.cstack = Pop(@)]
    IN  IF ~accepted THEN k1
        ELSE LET k2 == [k1 EXCEPT !.lastSet = SetCall("ai_message", "yes", "yes")] IN
             IF setOk THEN [k2 EXCEPT !.ws = content] ELSE SetFailed(k2, content)

(***************************************************************************)
(* The Sigmund extension (sigmund.py), the controller without a diff       *)
(* dialog                                                                  *)
(***************************************************************************)
\* refresh_dockwidget_ui
RefreshDockwidgetUi(k) ==
    IF k.state = "connected" /\ ~k.chat.exists
    THEN [k EXCEPT !.chat = [exists |-> TRUE, enabled |-> TRUE, msgs |-> <<>>]]
    ELSE k

\* Sigmund.on_user_message_sent
OnUserMessageSent(k, text, workspace_content, retry_arg) ==
    IF text = "" \/ ~hasQueues THEN k
    ELSE LET k1 == [k EXCEPT !.retry = retry_arg]
             content == IF workspace_content = NoneContent THEN k.ws ELSE workspace_content
             k2 == IF workspace_content = NoneContent THEN [k1 EXCEPT !.baseline = k.ws] ELSE k1
         IN  IF ~k2.chat.exists THEN [k2 EXCEPT !.raised = TRUE]
             ELSE Put([k2 EXCEPT !.chat.enabled = FALSE], Envelope("user_message", text, content))

\* Sigmund._handle_incoming_message
HandleIncomingMessage(k, raw, setOk) ==
    LET data == JsonLoads(raw)
        action == IF data = JSONDecodeError \/ ~data.isObj THEN "None" ELSE data.action
    IN  IF action \in {"clear_messages", "user_message", "ai_message"} /\ ~k.chat.exists
        THEN [k EXCEPT !.raised = TRUE]
        ELSE CASE action = "clear_messages" -> [k EXCEPT !.chat.msgs = <<>>]
               [] action = "user_message" -> ChatAppend(k, "user")
               [] action = "ai_message" ->
                    LET k1 == [ChatAppend(k, "ai") EXCEPT
                                  !.chat.enabled = TRUE,
                                  !.lastSet = SetCall("ai_message", "not asked", "not asked")]
                    IN  \* WorkspaceManager.set of workspace.py
                        IF data.content = EmptyContent \/ data.content = k1.baseline THEN k1
                        ELSE IF setOk THEN [k1 EXCEPT !.ws = data.content]
                        ELSE LET k2 == ChatAppend([k1 EXCEPT !.attempt.fails = @ + 1], "err") IN
                             IF k2.retry = NoRetry THEN [k2 EXCEPT !.raised = TRUE]
                             ELSE IF k2.retry = 0
                             THEN ChatAppend([k2 EXCEPT !.attempt.terminals = @ + 1], "max")
                             ELSE Resubmitted(k2, OnUserMessageSent(k2, "err", data.content, k2.retry - 1))
               [] OTHER -> LogError(k)

\* the body of the loop of Sigmund.poll_server_queue
PollServerQueue(k, raw, setOk) ==
    IF StartsWith(raw, "[DEBUG]") THEN k
    ELSE IF StartsWith(raw, "FAILED_TO_START")
    THEN RefreshDockwidgetUi([k EXCEPT !.state = "failed"])
    ELSE IF IsExactly(raw, "CLIENT_CONNECTED")
    THEN [RefreshDockwidgetUi([k EXCEPT !.state = "connected"]) EXCEPT !.chat.msgs = <<>>]
    ELSE IF IsExactly(raw, "CLIENT_DISCONNECTED")
    THEN IF srvProc # "None" THEN RefreshDockwidgetUi([k EXCEPT !.state = "listening"]) ELSE k
    ELSE HandleIncomingMessage(k, raw, setOk)

(***************************************************************************)
(* The controller's operations as steps                                    *)
(***************************************************************************)
ApplyCtl(k) ==
    /\ state' = k.state
    /\ chat' = k.chat
    /\ outbound' = k.outbound
    /\ retry' = k.retry
    /\ ws' = k.ws
    /\ baseline' = k.baseline
    /\ due' = k.due
    /\ fresh' = k.fresh
    /\ lastSet' = k.lastSet
    /\ attempt' = k.attempt
    /\ sigmund_token' = k.sigmund_token

\* ghost: the bookkeeping of consecutive start calls
NextPair(spawned, changed) ==
    IF state = "not_listening"
    THEN [calls |-> 1, firstOk |-> spawned, spawns |-> IF spawned THEN 1 ELSE 0, trans |-> 1]
    ELSE IF startPair.calls = 1
    THEN [startPair EXCEPT !.calls = 2,
                           !.spawns = @ + (IF spawned THEN 1 ELSE 0),
                           !.trans = @ + (IF changed THEN 1 ELSE 0)]
    ELSE NoPair

\* Process(...).start() and the fresh queues: the process that served the
\* old queues, if it still runs, keeps the port
Spawn(ok) ==
    /\ hasQueues' = TRUE
    /\ inbound' = <<>>
    /\ outbound' = <<>>
    /\ srvProc' = "Process"
    /\ bridge' = IF ok THEN "starting" ELSE "none"
    /\ orphan' = (orphan \/ bridge = "running")
    /\ client_connected' = FALSE
    /\ conns' = [c \in ConnIds |-> IF conns[c].h = "none" THEN NoConn ELSE GoneConn]
    /\ getters' = <<>>
    /\ due' = <<>>
    /\ fifo' = "ok"
    /\ fresh' = NoFresh
    /\ nDisp' = nRead
    /\ nStarts' = nStarts + 1

\* mutant: start_server without its guard on the state
StartServerUnguarded ==
    /\ variant = "dock"
    /\ cstack = <<>>
    /\ nStarts < MaxStarts
    /\ \E ok \in BOOLEAN :
        /\ Spawn(ok)
        /\ state' = IF ok THEN "listening" ELSE "failed"
        /\ pollTimer' = (pollTimer \/ ok)
        /\ startPair' = NextPair(ok, state # state')
    /\ UNCHANGED <<variant, sigmund_token, call, resumes, chat, retry, cstack, ws, baseline, uncaught, envVars, lastSet, nSends, attempt>>

\* mutant: the poll timer is started after the try statement, whatever
\* its outcome
StartServerPollsAnyway ==
    /\ variant = "dock"
    /\ cstack = <<>>
    /\ IF state \in {"listening", "connected"}
       THEN /\ startPair' = NextPair(FALSE, FALSE)
            /\ UNCHANGED <<ctlVars, queueVars, bridgeVars, envVars, due, fifo, fresh, lastSet, nStarts, nSends, attempt, nDisp>>
       ELSE /\ nStarts < MaxStarts
            /\ \E ok \in BOOLEAN :
                /\ Spawn(ok)
                /\ state' = IF ok THEN "listening" ELSE "failed"
                /\ pollTimer' = TRUE
                /\ startPair' = NextPair(ok, state # state')
            /\ UNCHANGED <<variant, sigmund_token, call, resumes, chat, retry, cstack, ws, baseline, uncaught, envVars, lastSet, nSends, attempt>>

\* SigmundDockWidget.start_server
StartServer ==
    /\ variant = "dock"
    /\ cstack = <<>>
    /\ IF state \in {"listening", "connected"}
       THEN /\ startPair' = NextPair(FALSE, FALSE)
            /\ UNCHANGED <<ctlVars, queueVars, bridgeVars, envVars, due, fifo, fresh, lastSet, nStarts, nSends, attempt, nDisp>>
       ELSE /\ nStarts < MaxStarts
            /\ \E ok \in BOOLEAN :
                /\ Spawn(ok)
                /\ state' = IF ok THEN "listening" ELSE "failed"
                /\ pollTimer' = (pollTimer \/ ok)
                /\ startPair' = NextPair(ok, state # state')
            /\ UNCHANGED <<variant, sigmund_token, call, resumes, chat, retry, cstack, ws, baseline, uncaught, envVars, lastSet, nSends, attempt>>

\* Sigmund.activate with Sigmund.start_listening
Activate ==
    /\ variant = "ext"
    /\ cstack = <<>>
    /\ IF state \in {"listening", "connected"}
       THEN /\ startPair' = NextPair(FALSE, FALSE)
            /\ pollTimer' = TRUE
            /\ UNCHANGED <<variant, sigmund_token, call, resumes, state, srvProc, hasQueues, chat, retry, cstack, ws, baseline, uncaught,
                           queueVars, bridgeVars, envVars, due, fifo, fresh, lastSet, nStarts, nSends, attempt, nDisp>>
       ELSE /\ nStarts < MaxStarts
            /\ \E ok \in BOOLEAN :
                /\ Spawn(ok)
                /\ state' = IF ok THEN "listening" ELSE "failed"
                /\ pollTimer' = TRUE
                /\ startPair' = NextPair(ok, state # state')
            /\ UNCHANGED <<variant, sigmund_token, call, resumes, chat, retry, cstack, ws, baseline, uncaught, envVars, lastSet, nSends, attempt>>

\* mutant: the timer's slot is entered again by the event loop that a modal
\* dialog runs inside it
PollTimerFiresInDialog ==
    /\ pollTimer
    /\ hasQueues
    /\ inbound # <<>>
    /\ \E setOk \in BOOLEAN :
        LET raw == Head(inbound)
            k == IF variant = "dock" THEN HandleIncomingRaw(Ctl, raw)
                 ELSE PollServerQueue(Ctl, raw, setOk)
        IN  /\ Len(k.cstack) <= MaxDialogs
            /\ ApplyCtl(k)
            /\ cstack' = k.cstack
            /\ uncaught' = (uncaught \/ k.raised)
    /\ inbound' = Tail(inbound)
    /\ nDisp' = IF Head(inbound).src = "client" THEN Head(inbound).n ELSE nDisp
    /\ startPair' = NoPair
    /\ UNCHANGED <<variant, call, resumes, srvProc, hasQueues, pollTimer, bridgeVars, envVars, fifo, nStarts, nSends>>

\* the poll timer fires and _poll_server_queue / poll_server_queue takes one
\* message off to_main_queue and handles it.  A call that drains several
\* messages is as many of these steps; a call that finds nothing changes
\* nothing.  The handler runs inside the slot of the one timer, and exec()
\* of a diff dialog runs an event loop inside the handler: Qt hands a timer
\* no event while an earlier event of that timer is still being handled, so
\* the slot is not entered again before the dialog returns.
PollTimerFires ==
    /\ pollTimer
    /\ hasQueues
    /\ cstack = <<>>
    /\ inbound # <<>>
    /\ \E setOk \in BOOLEAN :
        LET raw == Head(inbound)
            k == IF variant = "dock" THEN HandleIncomingRaw(Ctl, raw)
                 ELSE PollServerQueue(Ctl, raw, setOk)
        IN  /\ Len(k.cstack) <= MaxDialogs
            /\ ApplyCtl(k)
            /\ cstack' = k.cstack
            /\ uncaught' = (uncaught \/ k.raised)
    /\ inbound' = Tail(inbound)
    /\ nDisp' = IF Head(inbound).src = "client" THEN Head(inbound).n ELSE nDisp
    /\ startPair' = NoPair
    /\ UNCHANGED <<variant, call, resumes, srvProc, hasQueues, pollTimer, bridgeVars, envVars, fifo, nStarts, nSends>>

\* the user accepts or cancels the diff dialog on top
DiffDialogDone ==
    /\ cstack # <<>>
    /\ \E accepted \in BOOLEAN, setOk \in BOOLEAN :
        LET k == DialogReturns(Ctl, accepted, setOk) IN
        /\ ApplyCtl(k)
        /\ cstack' = k.cstack
        /\ uncaught' = (uncaught \/ k.raised)
    /\ startPair' = NoPair
    /\ UNCHANGED <<variant, call, resumes, srvProc, hasQueues, pollTimer, inbound, bridgeVars, envVars, fifo, nStarts, nSends, nDisp>>

\* the user sends a message: ChatWidget.user_message_sent, or a direct call
UserSends ==
    /\ cstack = <<>>
    /\ variant = "ext" => chat.exists
    /\ \E text \in {"", "hello"}, r \in 0..MaxRetry :
        LET sent == IF variant = "dock" THEN SendUserMessage(Ctl, text, NoneContent, r)
                    ELSE OnUserMessageSent(Ctl, text, NoneContent, r)
            k == IF sent.outbound # outbound
                 THEN [sent EXCEPT !.attempt = [NoAttempt EXCEPT !.budget = r]]
                 ELSE sent
        IN  /\ k.outbound # outbound => nSends < MaxSends
            /\ ApplyCtl(k)
            /\ nSends' = IF k.outbound # outbound THEN nSends + 1 ELSE nSends
    /\ startPair' = NoPair
    /\ UNCHANGED <<variant, call, resumes, srvProc, hasQueues, pollTimer, cstack, uncaught, inbound, bridgeVars, envVars,
                   fifo, nStarts, nDisp>>

CtlNext ==
    \/ StartServer
    \/ Activate
    \/ PollTimerFires
    \/ DiffDialogDone
    \/ UserSends

Next == BridgeNext \/ CtlNext

Spec == Init /\ [][Next]_vars

(***************************************************************************)
(* Properties                                                              *)
(***************************************************************************)
Pending == {c \in ConnIds : conns[c].h = "new"}
Pushed(x) == inbound' = Append(inbound, x)
NoRestart == nStarts' = nStarts

\* C1: at most one connection is served at any time; an attempt handled
\* while the slot is occupied is closed at once, pushes nothing onto inbound,
\* leaves the slot occupied and leaves every other connection, the live one
\* with its read and write loops included, as it was.
C1_Refusal ==
    \A c \in ConnIds :
        (conns[c].h = "new" /\ client_connected /\ conns'[c].h # "new" /\ NoRestart)
            => /\ conns'[c].h = "refused"
               /\ inbound' = inbound
               /\ client_connected'
               /\ \A d \in ConnIds \ {c} : conns'[d] = conns[d]
C1_AtMostOneClient ==
    /\ [](Cardinality({c \in ConnIds : Live(c)}) <= 1)
    /\ [][C1_Refusal]_vars

C1_Witness ==
    \E c, d \in ConnIds :
        /\ conns[c].h = "refused"
        /\ Live(d) /\ conns[d].r = "run" /\ conns[d].w \in {"get", "send"}
        /\ client_connected

\* C6: an accepted connection leaves echo only after its read loop or its
\* write loop has ended; in that step both loops are finished or cancelled,
\* the slot is released and CLIENT_DISCONNECTED is pushed for it, and this
\* is the only step that pushes CLIENT_DISCONNECTED for it; a connection
\* that has ended never runs again, so the token is pushed exactly once.
C6_End ==
    \A c \in ConnIds :
        /\ (Live(c) /\ ~Live(c)' /\ NoRestart)
             => /\ conns[c].r = "done" \/ conns[c].w = "done"
                /\ conns'[c].h = "done"
                /\ conns'[c].r = "ended" /\ conns'[c].w = "ended"
                /\ ~client_connected'
                /\ Pushed(Sentinel("CLIENT_DISCONNECTED", "bridge", c))
        /\ Pushed(Sentinel("CLIENT_DISCONNECTED", "bridge", c)) => (Live(c) /\ ~Live(c)')
        /\ conns[c].h = "done" => conns'[c].h \in {"done", "gone"}
C6_DisconnectedExactlyOnce == [][C6_End]_vars

\* every connection was accepted in its turn and has ended
C6_Witness ==
    /\ \A c \in ConnIds : conns[c].h = "done"
    /\ inbound # <<>>
    /\ inbound[Len(inbound)] = Sentinel("CLIENT_DISCONNECTED", "bridge", MaxConn)

\* C7: when two attempts are pending and the slot is free, the first handler
\* that runs occupies the slot and pushes CLIENT_CONNECTED, every other
\* pending attempt is still pending and now faces an occupied slot; two
\* connections are never live together.
C7_Race ==
    (Cardinality(Pending) >= 2 /\ ~client_connected /\ NoRestart
        /\ \E c \in Pending : conns'[c].h # "new")
    => \E c \in Pending :
        /\ conns'[c].h = "echo"
        /\ \A d \in Pending \ {c} : conns'[d].h = "new"
        /\ client_connected'
        /\ Pushed(Sentinel("CLIENT_CONNECTED", "bridge", c))
C7_ExactlyOneAccepted ==
    /\ [][C7_Race]_vars
    /\ [](\A c, d \in ConnIds : (Live(c) /\ Live(d)) => c = d)

C7_Witness ==
    \E c, d \in ConnIds :
        /\ c # d
        /\ Live(c) /\ conns[c].arrivedFree
        /\ conns[d].h = "refused" /\ conns[d].arrivedFree

\* C10: a bridge that fails to start pushes FAILED_TO_START in the step in
\* which it terminates; a terminated bridge pushes nothing more; and the
\* controller that dispatches the FAILED_TO_START of the bridge is in state
\* failed afterwards.
C10_Step ==
    /\ (bridge = "starting" /\ bridge' = "dead") => Pushed(Sentinel("FAILED_TO_START", "bridge", 0))
    /\ (bridge = "dead" /\ NoRestart) => (bridge' = "dead" /\ Len(inbound') <= Len(inbound))
    /\ (inbound # <<>> /\ Head(inbound) = Sentinel("FAILED_TO_START", "bridge", 0)
            /\ NoRestart /\ inbound' = Tail(inbound))
        => state' = "failed"
C10_FailedToStart == [][C10_Step]_vars

C10_Witness == bridge = "dead" /\ state = "failed" /\ inbound = <<>> /\ pollTimer

\* C2: the collaborator's set() is called only while an ai_message is
\* dispatched whose content has_changed reported as changed and whose diff
\* the user accepted.
C2_SetOnlyAfterAcceptedChange ==
    lastSet # NoSetCall => lastSet = SetCall("ai_message", "yes", "yes")

\* C3: after a user-initiated send with budget k, f failed set() calls have
\* caused min(f, k) resubmissions and max(0, f - k) terminal messages, and
\* the budget left is k less the resubmissions: k resubmissions, the
\* terminal message at failure k + 1, never a resubmission k + 1.  A
\* resubmission puts one user_message envelope on outbound; the step that
\* appends the terminal message puts nothing on it.
Terminals(msgs) == Len(SelectSeq(msgs, LAMBDA m : m = "max"))
C3_Account ==
    attempt.budget # NoRetry =>
        /\ attempt.resubs = (IF attempt.fails < attempt.budget THEN attempt.fails ELSE attempt.budget)
        /\ attempt.terminals = (IF attempt.fails > attempt.budget THEN attempt.fails - attempt.budget ELSE 0)
        /\ retry = attempt.budget - attempt.resubs
C3_Step ==
    /\ attempt'.resubs = attempt.resubs + 1 =>
        /\ Len(outbound') = Len(outbound) + 1
        /\ outbound' = Append(outbound, outbound'[Len(outbound')])
        /\ JsonLoads(outbound'[Len(outbound')]).action = "user_message"
    /\ attempt'.terminals = attempt.terminals + 1 =>
        /\ outbound' = outbound
        /\ Terminals(chat'.msgs) = Terminals(chat.msgs) + 1
        /\ chat'.msgs[Len(chat'.msgs)] = "max"
C4_OutboundFifo ==
    /\ fifo # "not due"
    /\ \A c \in ConnIds :
        (Live(c) /\ conns[c].r = "run" /\ conns[c].w = "get" /\ outbound = <<>>)
            => (due = <<>> /\ fifo = "ok")

\* C5: read_task puts each frame on inbound as received, in arrival order:
\* the client frames on inbound are the frames the client sent, in order,
\* from the first one not yet taken; the poller takes the oldest item, so
\* client frames are dispatched in the order of their arrival.
ClientFrames == SelectSeq(inbound, LAMBDA m : m.src = "client")
C5_Queue ==
    /\ nDisp + Len(ClientFrames) = nRead
    /\ \A i \in 1..Len(ClientFrames) :
        ClientFrames[i] = [script[nDisp + i] EXCEPT !.n = nDisp + i]
C5_Step ==
    /\ nRead' # nRead => (nRead' = nRead + 1 /\ Pushed([script[nRead'] EXCEPT !.n = nRead']))
    /\ (Len(inbound') < Len(inbound) /\ NoRestart) => inbound' = Tail(inbound)
    /\ (nDisp' # nDisp /\ NoRestart) => nDisp' = nDisp + 1
C5_InboundFifo == [](C5_Queue) /\ [][C5_Step]_vars

C5_Witness == nDisp = 1 /\ Len(ClientFrames) = 1 /\ Len(inbound) >= 2

\* C8 as stated: two consecutive start calls from not_listening make one
\* bridge process and one transition.
C8_TwoCallsOneProcess ==
    startPair.calls = 2 => (startPair.spawns = 1 /\ startPair.trans = 1)

\* C8 amended: in state listening or connected no step spawns a process or
\* creates queues, and a start call changes nothing; two consecutive start
\* calls from not_listening, the first of which spawns the bridge, make one
\* bridge process and one transition.
C8_Noop ==
    /\ state \in {"listening", "connected"} =>
        (nStarts' = nStarts /\ srvProc' = srvProc /\ hasQueues' = hasQueues)
    /\ (state \in {"listening", "connected"} /\ startPair.calls = 1 /\ startPair'.calls = 2) =>
        UNCHANGED <<ctlVars, queueVars, bridgeVars, envVars>>
C8_Idempotent ==
    /\ [][C8_Noop]_vars
    /\ []((startPair.calls = 2 /\ startPair.firstOk) => (startPair.spawns = 1 /\ startPair.trans = 1))

C8_Witness == startPair.calls = 2 /\ startPair.firstOk

\* C9: a start call of the dock widget that goes ahead happens in state
\* not_listening or failed and leaves fresh, empty queues; if the spawn
\* succeeded the state is listening and the poll timer runs, if it raised
\* the state is failed and the poll timer is as it was.
C9_Step ==
    (variant = "dock" /\ nStarts' # nStarts) =>
        /\ state \in {"not_listening", "failed"}
        /\ hasQueues' /\ inbound' = <<>> /\ outbound' = <<>>
        /\ \/ bridge' = "starting" /\ state' = "listening" /\ pollTimer'
           \/ bridge' = "none" /\ state' = "failed" /\ pollTimer' = pollTimer
C9_StartServer == [][C9_Step]_vars

C9_Witness == variant = "dock" /\ state = "failed" /\ bridge = "none" /\ hasQueues /\ ~pollTimer

(***************************************************************************)
(* The poll slot dispatches the item at the head of to_main_queue          *)
(***************************************************************************)
Dispatches(pre, exact) ==
    /\ pollTimer /\ hasQueues /\ inbound # <<>>
    /\ Head(inbound).pre = pre
    /\ Head(inbound).more = ~exact
    /\ inbound' = Tail(inbound)
    /\ NoRestart

GetTokenRaw == JsonDumps(Envelope("get_token", "", NoneContent), "controller", 0)

\* C11: when the dock widget dispatches CLIENT_CONNECTED in state listening,
\* the state becomes connected, the conversation is empty afterwards, and
\* outbound grows by exactly one get_token envelope.
C11_Step ==
    (variant = "dock" /\ state = "listening" /\ Dispatches("CLIENT_CONNECTED", TRUE))
        => /\ state' = "connected"
           /\ chat'.exists /\ chat'.msgs = <<>>
           /\ outbound' = Append(outbound, GetTokenRaw)

C11_ClientConnected == [][C11_Step]_vars

\* a second connection was dispatched while the conversation of the first
\* was still rendered
C11_Witness ==
    /\ variant = "dock" /\ state = "connected" /\ nDisp >= 1
    /\ chat.msgs = <<>>
    /\ Len(outbound) >= 2
    /\ outbound[Len(outbound)] = GetTokenRaw

(***************************************************************************)
(* The bridge whose event loop fails while it serves.  start_server keeps  *)
(* loop.run_forever() inside its try statement: an exception that leaves   *)
(* the loop is reported like a failed start and the process exits, its     *)
(* connections with it.                                                    *)
(***************************************************************************)
RunForeverRaises ==
    /\ bridge = "running"
    /\ bridge' = "dead"
    /\ inbound' = Append(inbound, Sentinel("FAILED_TO_START", "bridge", 0))
    /\ conns' = [c \in ConnIds |-> IF conns[c].h = "none" THEN NoConn ELSE GoneConn]
    /\ client_connected' = FALSE
    /\ getters' = <<>>
    /\ due' = <<>>
    /\ fresh' = NoFresh
    /\ UNCHANGED <<ctlVars, outbound, orphan, envVars, fifo, startPair, lastSet, nStarts, nSends, attempt, nDisp>>

InitCrash == InitOf({"dock", "ext"}, {[i \in 1..ScriptLen |-> AiFrame(<<"b">>)]})

NextCrash == Next \/ RunForeverRaises

SpecCrash == InitCrash /\ [][NextCrash]_vars

BridgeAlive == bridge \in {"starting", "running"}

\* C12: when CLIENT_DISCONNECTED is dispatched, the state becomes listening
\* if the bridge process is alive and is left as it was if the bridge
\* process has terminated.
C12_Step ==
    Dispatches("CLIENT_DISCONNECTED", TRUE)
        => IF BridgeAlive THEN state' = "listening" ELSE state' = state

C12_ClientDisconnected == [][C12_Step]_vars

(***************************************************************************)
(* The controller facing a client that does not keep to the protocol:      *)
(* read_task relays whatever text the client sends                         *)
(***************************************************************************)
InitFrames == InitOf({"dock", "ext"}, FrameScripts)

SpecFrames == InitFrames /\ [][Next]_vars

\* C13: from state failed, every step that is not a new start leaves the
\* state failed.
C13_Step == (state = "failed" /\ NoRestart) => state' = "failed"

C13_FailedUntilRestart == [][C13_Step]_vars

(***************************************************************************)
(* The session state machine                                               *)
(***************************************************************************)
States == {"not_listening", "listening", "connected", "failed"}

\* the lifecycle event a step delivers to the controller, "none" if it
\* delivers none
Event ==
    IF ~NoRestart THEN (IF bridge' = "starting" THEN "start-ok" ELSE "start-fail")
    ELSE IF Dispatches("CLIENT_CONNECTED", TRUE) THEN "connect"
    ELSE IF Dispatches("CLIENT_DISCONNECTED", TRUE) THEN "disconnect"
    ELSE IF Dispatches("FAILED_TO_START", TRUE) \/ Dispatches("FAILED_TO_START", FALSE) THEN "start-fail"
    ELSE "none"

\* the transition table: a start is attempted only in not_listening and
\* failed, so that start-ok has no transition in listening and connected
Transition(s, event) ==
    CASE event = "connect" -> "connected"
      [] event = "disconnect" -> "listening"
      [] event = "start-fail" -> "failed"
      [] event = "start-ok" -> IF s \in {"not_listening", "failed"} THEN "listening" ELSE s
      [] OTHER -> s

\* C14: the state is always one of the four; each step's next state is the
\* table's entry for the current state and the event the step delivers (the
\* state itself where there is none); not_listening is never entered.
C14_Step ==
    /\ state' = Transition(state, Event)
    /\ state' = "not_listening" => state = "not_listening"

C14_Totality == [](state \in States) /\ [][C14_Step]_vars

\* connect, disconnect, start-fail and start-ok have all acted: a restart
\* after a failed start, then a connection that came and went
C14_Witness == state = "listening" /\ chat.exists /\ nStarts = 2 /\ nDisp >= 1

(***************************************************************************)
(* Items that are no lifecycle token                                       *)
(***************************************************************************)
\* what the poll slot's handler makes of the item at the head of
\* to_main_queue, should set() succeed
Handled ==
    IF variant = "dock" THEN HandleIncomingRaw(Ctl, Head(inbound))
    ELSE PollServerQueue(Ctl, Head(inbound), TRUE)

\* C15: dispatching a string that is neither a sentinel nor JSON logs one
\* error, raises nothing, leaves state, conversation, input flag, retry
\* budget and outbound as they were, takes only that string off the queue and
\* leaves the poll running for the items behind it.
C15_Step ==
    (Dispatches("text", FALSE) /\ JsonLoads(Head(inbound)) = JSONDecodeError)
        => /\ Handled.logs = 1 /\ ~Handled.raised
           /\ UNCHANGED <<state, chat, retry, outbound, uncaught, ws>>
           /\ pollTimer' /\ hasQueues'

C15_DecodeFailure == [][C15_Step]_vars

\* the frame behind the undecodable one was dispatched
C15_Witness ==
    /\ script[1] = GarbageFrame /\ nDisp = 2
    /\ chat.msgs # <<>> /\ chat.msgs[Len(chat.msgs)] = "ai" /\ ~uncaught

\* the actions _on_message_received has a branch for
RecognizedActions == {"token", "clear_messages", "cancel_message", "user_message", "ai_message"}

\* C16: dispatching a JSON object whose action is missing or not recognized
\* logs one error and leaves the state, outbound and the conversation as
\* they were.
C16_Step ==
    (/\ Dispatches("{", FALSE)
     /\ JsonLoads(Head(inbound)).isObj
     /\ JsonLoads(Head(inbound)).action \notin RecognizedActions)
        => /\ Handled.logs = 1
           /\ state' = state
           /\ outbound' = outbound
           /\ chat'.msgs = chat.msgs

C16_UnknownAction == [][C16_Step]_vars

\* an object with an unknown action, or with none, was dispatched behind
\* another frame
C16_Witness ==
    /\ nDisp = 2 /\ inbound = <<>>
    /\ script[2] \in {BogusFrame, NoActionFrame}

\* C17: dispatching a string that is JSON but no object logs an error,
\* raises nothing, leaves the state as it was and leaves the poll running
\* for the items behind it.
C17_Step ==
    (/\ Dispatches("[", FALSE)
     /\ JsonLoads(Head(inbound)) # JSONDecodeError
     /\ ~JsonLoads(Head(inbound)).isObj)
        => /\ Handled.logs = 1 /\ ~Handled.raised
           /\ uncaught' = uncaught
           /\ state' = state
           /\ pollTimer' /\ hasQueues'

C17_NonObject == [][C17_Step]_vars

(***************************************************************************)
(* Workspace failures                                                      *)
(***************************************************************************)
\* the collaborator's set() raises in this step
SetRaises == attempt'.fails = attempt.fails + 1

\* C18: a step in which set() raises lets no exception out of the poll slot
\* and leaves the session state as it was, whether or not a user message
\* was sent before.
C18_Step == SetRaises => (uncaught' = uncaught /\ state' = state)

C18_SetFailureContained == [][C18_Step]_vars

(***************************************************************************)
(* Sending a user message                                                  *)
(***************************************************************************)
\* the controller after send_user_message / on_user_message_sent with the
\* workspace arguments omitted
Sent(text, r) ==
    IF variant = "dock" THEN SendUserMessage(Ctl, text, NoneContent, r)
    ELSE OnUserMessageSent(Ctl, text, NoneContent, r)

UserMessages(queue) == SelectSeq(queue, LAMBDA raw : JsonLoads(raw).action = "user_message")

\* C19: a send with empty text changes nothing, and in a state other than
\* connected no step puts a user_message envelope on outbound, disables the
\* input or changes the retry budget.
C19_Step ==
    /\ \A r \in 0..MaxRetry : Sent("", r) = Ctl
    /\ (state # "connected" /\ NoRestart)
        => /\ UserMessages(outbound') = UserMessages(outbound)
           /\ retry' = retry
           /\ chat.enabled => chat'.enabled

C19_SendIsNoop == [][C19_Step]_vars

UserMessageRaw(text, content) == JsonDumps(Envelope("user_message", text, content), "controller", 0)

\* C20: in the dock widget in state connected, a user's send with non-empty
\* text and the workspace arguments omitted appends exactly one user_message
\* envelope with the text and what get() returns, sets the retry budget to
\* the value given and disables the input; a resubmission, which passes the
\* workspace values, appends one envelope with the values passed.
C20_Step ==
    /\ (variant = "dock" /\ state = "connected" /\ nSends' = nSends + 1)
        => /\ outbound' = Append(outbound, UserMessageRaw("hello", ws))
           /\ retry' = attempt'.budget
           /\ retry' \in 0..MaxRetry
           /\ chat.exists => ~chat'.enabled
    /\ (variant = "dock" /\ state = "connected" /\ attempt'.resubs = attempt.resubs + 1)
        => /\ outbound' = Append(outbound, UserMessageRaw("err", Top(cstack).content))
           /\ retry' = retry - 1
           /\ ~chat'.enabled

C20_SendUserMessage == [][C20_Step]_vars

\* a send with the default budget has just been made while connected
C20_Witness ==
    /\ variant = "dock" /\ state = "connected" /\ nSends = 1
    /\ retry = DefaultRetry /\ attempt.budget = DefaultRetry /\ attempt.resubs = 0
    /\ chat.exists /\ ~chat.enabled
    /\ outbound # <<>> /\ outbound[Len(outbound)] = UserMessageRaw("hello", ws)

(***************************************************************************)
(* Workspace sync                                                          *)
(***************************************************************************)
\* C21: while a diff dialog is open, its cancellation only closes it: set()
\* is not called, the workspace and its baseline, outbound, the retry budget
\* and the conversation stay as they are, and nothing is raised.
C21_CancelDoesNothing ==
    (variant = "dock" /\ cstack # <<>>)
        => \A setOk \in BOOLEAN :
             DialogReturns(Ctl, FALSE, setOk) = [Ctl EXCEPT !.cstack = Pop(@)]

\* the dialog of a changed ai_message was cancelled: it is closed, and set()
\* was never called
C21_Witness ==
    /\ variant = "dock" /\ script[1] = AiFrame(<<"b">>) /\ nDisp = 1
    /\ cstack = <<>> /\ lastSet = NoSetCall
    /\ chat.msgs = <<"ai">> /\ ws = <<"a">> /\ outbound # <<>>

\* the user accepts the diff on top and set() returns normally
SetSucceeds ==
    /\ variant = "dock"
    /\ cstack # <<>> /\ cstack' = Pop(cstack)
    /\ attempt'.fails = attempt.fails
    /\ lastSet' # lastSet \/ ws' # ws

\* C22: when the user accepts the diff and set() succeeds, the workspace
\* holds the new content and the baseline of later change detection is such
\* that the same content is judged unchanged.
C22_Step ==
    SetSucceeds
        => /\ ws' = Top(cstack).content
           /\ ~HasChanged(Top(cstack).content, baseline')

C22_BaselineFollowsSet == [][C22_Step]_vars

\* the poll slot dispatches a JSON object with this action
DispatchesAction(action) ==
    /\ Dispatches("{", FALSE)
    /\ JsonLoads(Head(inbound)).isObj
    /\ JsonLoads(Head(inbound)).action = action

\* C23: when the dock widget dispatches an ai_message whose content
\* has_changed reports unchanged, the message is appended and the input
\* enabled, and nothing else happens: no dialog opens, set() is not called,
\* workspace, baseline, outbound and retry budget stay as they are.
C23_Step ==
    (/\ variant = "dock"
     /\ DispatchesAction("ai_message")
     /\ ~HasChanged(JsonLoads(Head(inbound)).content, baseline))
        => /\ chat'.msgs = Append(chat.msgs, "ai") /\ chat'.enabled
           /\ UNCHANGED <<cstack, lastSet, ws, baseline, outbound, retry, state, uncaught>>

C23_UnchangedContent == [][C23_Step]_vars

\* an ai_message carrying the content the last get() returned was dispatched
\* after the user's send
C23_Witness ==
    /\ variant = "dock" /\ script[1] = AiFrame(<<"a">>) /\ nDisp = 1
    /\ nSends = 1 /\ baseline = <<"a">> /\ ws = <<"a">>
    /\ chat.enabled /\ chat.msgs = <<"ai">>
    /\ cstack = <<>> /\ lastSet = NoSetCall

Count(msgs, kind) == Len(SelectSeq(msgs, LAMBDA m : m = kind))

\* the content set() was called with in a step in which it raises
RejectedContent ==
    IF variant = "dock" THEN Top(cstack).content ELSE JsonLoads(Head(inbound)).content

\* C24: a step in which set() raises appends exactly one synthetic
\* user_message; with a budget above 0 it also puts exactly one user_message
\* envelope with the error text and the rejected content on outbound and
\* lowers the budget by one, appending no terminal message; with budget 0 it
\* appends exactly one terminal message last and puts nothing on outbound.
C24_Step ==
    SetRaises
        => /\ Count(chat'.msgs, "err") = Count(chat.msgs, "err") + 1
           /\ retry > 0 =>
                /\ outbound' = Append(outbound, UserMessageRaw("err", RejectedContent))
                /\ retry' = retry - 1
                /\ Count(chat'.msgs, "max") = Count(chat.msgs, "max")
                /\ chat'.msgs[Len(chat'.msgs)] = "err"
           /\ retry = 0 =>
                /\ outbound' = outbound
                /\ retry' = 0
                /\ Count(chat'.msgs, "max") = Count(chat.msgs, "max") + 1
                /\ SubSeq(chat'.msgs, Len(chat'.msgs) - 1, Len(chat'.msgs)) = <<"err", "max">>

N_MAX_RESUMES == 3

\* an agent reply whose text holds 'using tool:' and is no command
ToolFrame(content) == JsonDumps(Envelope("ai_message", "tool", content), "client", 0)

\* an agent reply whose text holds a todo list with an unticked item: the
\* text re.search(r'[-*+...]\s*\[\s*\]', message_text) matches
TodoFrame(content) == JsonDumps(Envelope("ai_message", "todo", content), "client", 0)

WidgetScripts ==
    { [i \in 1..ScriptLen |-> TodoFrame(<<"b">>)],
      [i \in 1..ScriptLen |-> IF i = 1 THEN TodoFrame(<<"a">>) ELSE AiFrame(<<"b">>)] }

InitWidget == InitOf({"widget"}, WidgetScripts)

\* a DiffDialog of the widget: the handler that waits for it goes on with
\* the text of the reply
WidgetDialogFrame(data) == [k |-> "dialog", content |-> data.content, message |-> data.message]

\* mutant: the request to continue is sent without looking at the counter
ContinueUncounted(k, message_text, reply_sent) ==
    IF k.raised THEN k
    ELSE IF ~reply_sent /\ message_text = "todo"
    THEN SendUserMessage([k EXCEPT !.attempt.resumed = @ + 1],
                         "continue", NoneContent, DefaultRetry)
    ELSE k

\* the end of OpenSesameSigmundWidget._on_message_received, which an
\* exception of the base handler does not reach: the request to continue,
\* sent by send_user_message with its default arguments; attempt.resumed
\* is the ghost count of the requests since the user's last message
Continue(k, message_text, reply_sent) ==
    IF k.raised THEN k
    ELSE IF k.resumes > 0 /\ ~reply_sent /\ message_text = "todo"
    THEN SendUserMessage([k EXCEPT !.resumes = @ - 1, !.attempt.resumed = @ + 1],
                         "continue", NoneContent, DefaultRetry)
    ELSE k

\* OpenSesameSigmundWidget.run_command for a text that is no command: a
\* text that holds 'using tool:' gets the reminder MISSING_TOOL_CALL, sent
\* by send_user_message with its default arguments; attempt.reminded is the
\* ghost count of the reminders since the user's last message
RunCommand(k, message_text) ==
    IF message_text = "tool"
    THEN LET sent == SendUserMessage(k, "reminder", NoneContent, DefaultRetry) IN
         IF sent.outbound # k.outbound THEN [sent EXCEPT !.attempt.reminded = @ + 1] ELSE sent
    ELSE k

\* the workspace sync of the base class once the change is confirmed
WidgetApply(k, content, setOk) ==
    LET k1 == [k EXCEPT !.lastSet = SetCall("ai_message", "yes", "yes")] IN
    IF setOk THEN [k1 EXCEPT !.ws = content] ELSE SetFailed(k1, content)

\* OpenSesameSigmundWidget._on_message_received; the base class shows the
\* reply and hands its text to run_command; confirm_change returns True at
\* once unless cfg.sigmund_review_actions (review) is set
WidgetOnMessageReceived(k, data, review, setOk) ==
    IF data.action # "ai_message" THEN OnMessageReceived(k, data)
    ELSE LET k1 == RunCommand([ChatAppend(k, "ai") EXCEPT !.chat.enabled = TRUE], data.message) IN
         IF ~HasChanged(data.content, k1.baseline) THEN Continue(k1, data.message, FALSE)
         ELSE IF review THEN [k1 EXCEPT !.cstack = Append(@, WidgetDialogFrame(data))]
         ELSE LET k2 == WidgetApply(k1, data.content, setOk) IN
              Continue(k2, data.message, k2.outbound # k1.outbound)

\* the DiffDialog returns and _on_message_received goes on
WidgetDialogReturns(k, accepted, setOk) ==
    LET k1 == DialogReturns(k, accepted, setOk) IN
    Continue(k1, Top(k.cstack).message, k1.outbound # k.outbound)

\* _handle_incoming_raw of the base class with the widget's handler
WidgetHandleIncomingRaw(k, raw, review, setOk) ==
    IF StartsWith(raw, "{") /\ JsonLoads(raw).isObj
    THEN WidgetOnMessageReceived(k, JsonLoads(raw), review, setOk)
    ELSE HandleIncomingRaw(k, raw)

\* start_server of the base class
WidgetStartServer ==
    /\ variant = "widget"
    /\ cstack = <<>>
    /\ IF state \in {"listening", "connected"}
       THEN /\ startPair' = NextPair(FALSE, FALSE)
            /\ UNCHANGED <<ctlVars, queueVars, bridgeVars, envVars, due, fifo, fresh, lastSet, nStarts, nSends, attempt, nDisp>>
       ELSE /\ nStarts < MaxStarts
            /\ \E ok \in BOOLEAN :
                /\ Spawn(ok)
                /\ state' = IF ok THEN "listening" ELSE "failed"
                /\ pollTimer' = (pollTimer \/ ok)
                /\ startPair' = NextPair(ok, state # state')
            /\ UNCHANGED <<variant, sigmund_token, call, resumes, chat, retry, cstack, ws, baseline, uncaught, envVars, lastSet, nSends, attempt>>

\* the poll timer fires and the widget handles one message
WidgetPollTimerFires ==
    /\ variant = "widget"
    /\ pollTimer
    /\ hasQueues
    /\ cstack = <<>>
    /\ inbound # <<>>
    /\ \E review \in BOOLEAN, setOk \in BOOLEAN :
        LET k == WidgetHandleIncomingRaw(Ctl, Head(inbound), review, setOk) IN
        /\ Len(k.cstack) <= MaxDialogs
        /\ ApplyCtl(k)
        /\ cstack' = k.cstack
        /\ resumes' = k.resumes
        /\ uncaught' = (uncaught \/ k.raised)
    /\ inbound' = Tail(inbound)
    /\ nDisp' = IF Head(inbound).src = "client" THEN Head(inbound).n ELSE nDisp
    /\ startPair' = NoPair
    /\ UNCHANGED <<variant, call, srvProc, hasQueues, pollTimer, bridgeVars, envVars, fifo, nStarts, nSends>>

\* the user closes the widget's diff dialog
WidgetDialogDone ==
    /\ variant = "widget"
    /\ cstack # <<>>
    /\ \E accepted \in BOOLEAN, setOk \in BOOLEAN :
        LET k == WidgetDialogReturns(Ctl, accepted, setOk) IN
        /\ ApplyCtl(k)
        /\ cstack' = k.cstack
        /\ resumes' = k.resumes
        /\ uncaught' = (uncaught \/ k.raised)
    /\ startPair' = NoPair
    /\ UNCHANGED <<variant, call, srvProc, hasQueues, pollTimer, inbound, bridgeVars, envVars, fifo, nStarts, nSends, nDisp>>

\* OpenSesameSigmundWidget.send_user_triggered_message
SendUserTriggeredMessage ==
    /\ variant = "widget"
    /\ cstack = <<>>
    /\ \E text \in {"", "hello"} :
        LET sent == SendUserMessage(Ctl, text, NoneContent, DefaultRetry)
            k == IF sent.outbound # outbound
                 THEN [sent EXCEPT !.attempt = [NoAttempt EXCEPT !.budget = DefaultRetry]]
                 ELSE [sent EXCEPT !.attempt = [NoAttempt EXCEPT !.budget = attempt.budget]]
        IN  /\ k.outbound # outbound => nSends < MaxSends
            /\ ApplyCtl(k)
            /\ nSends' = IF k.outbound # outbound THEN nSends + 1 ELSE nSends
    /\ resumes' = N_MAX_RESUMES
    /\ startPair' = NoPair
    /\ UNCHANGED <<variant, call, srvProc, hasQueues, pollTimer, cstack, uncaught, inbound, bridgeVars, envVars,
                   fifo, nStarts, nDisp>>

WidgetNext ==
    \/ WidgetStartServer
    \/ WidgetPollTimerFires
    \/ WidgetDialogDone
    \/ SendUserTriggeredMessage

NextWidget == BridgeNext \/ WidgetNext

SpecWidget == InitWidget /\ [][NextWidget]_vars

\* C25: the retry budget changes only in a step that is a user-initiated
\* send, which sets it to its default, or in a step in which set() raises
\* and the error is resubmitted, which decrements it by one; no other step
\* (a dispatch of any action, a connect, a disconnect, an automatic request
\* to continue) changes it, and once set it is never negative.
C25_Step ==
    retry' # retry =>
        \/ nSends' = nSends + 1 /\ retry' = DefaultRetry
        \/ SetRaises /\ retry > 0 /\ retry' = retry - 1
C25_RetryBudget ==
    /\ [](retry = NoRetry \/ retry >= 0)
    /\ [][C25_Step]_vars

(***************************************************************************)
(* DiffDialog (diff_dialog.py).  A line is the sequence of its characters, *)
(* a content the sequence of the lines that splitlines() gives, the diff   *)
(* text the sequence of the lines that "\n".join puts together.            *)
(***************************************************************************)
MaxLines == 2

\* the lines of the contents: two plain ones, a decrement and an increment
DiffLines == { <<"x">>, <<"y">>, <<"-", "-", "c">>, <<"+", "+", "i">> }
Contents == UNION { [1..n -> DiffLines] : n \in 0..MaxLines }

\* the blocks a[i..i+k-1] = b[j..j+k-1] inside a[alo..ahi] and b[blo..bhi]
Blocks(a, b, alo, ahi, blo, bhi) ==
    { m \in (alo..ahi) \X (blo..bhi) \X (1..(ahi - alo + 1)) :
        /\ m[1] + m[3] - 1 <= ahi
        /\ m[2] + m[3] - 1 <= bhi
        /\ \A d \in 0..(m[3] - 1) : a[m[1] + d] = b[m[2] + d] }

\* difflib.SequenceMatcher.find_longest_match: the longest block, of the
\* longest the one that starts earliest in a, of those the one that starts
\* earliest in b; no line is junk
FindLongestMatch(a, b, alo, ahi, blo, bhi) ==
    LET ms == Blocks(a, b, alo, ahi, blo, bhi) IN
    IF ms = {} THEN <<alo, blo, 0>>
    ELSE CHOOSE m \in ms : \A o \in ms :
            \/ m[3] > o[3]
            \/ m[3] = o[3] /\ m[1] < o[1]
            \/ m[3] = o[3] /\ m[1] = o[1] /\ m[2] <= o[2]

\* tag + line for each of the lines
Tagged(tag, lines) == [n \in 1..Len(lines) |-> <<tag>> \o lines[n]]

\* the lines unified_diff yields for the opcodes of a[alo..ahi] and
\* b[blo..bhi]: ' ' for equal, '-' for replace and delete, then '+' for
\* replace and insert
RECURSIVE DiffBody(_, _, _, _, _, _)
DiffBody(a, b, alo, ahi, blo, bhi) ==
    LET m == FindLongestMatch(a, b, alo, ahi, blo, bhi) IN
    IF m[3] = 0
    THEN Tagged("-", SubSeq(a, alo, ahi)) \o Tagged("+", SubSeq(b, blo, bhi))
    ELSE DiffBody(a, b, alo, m[1] - 1, blo, m[2] - 1)
            \o Tagged(" ", SubSeq(a, m[1], m[1] + m[3] - 1))
            \o DiffBody(a, b, m[1] + m[3], ahi, m[2] + m[3], bhi)

\* difflib._format_range_unified
FormatRangeUnified(start, stop) ==
    LET beginning == start + 1
        length == stop - start
    IN  IF length = 1 THEN ToString(beginning)
        ELSE ToString(IF length = 0 THEN beginning - 1 ELSE beginning) \o "," \o ToString(length)

\* '--- Original', '+++ Updated' and '@@ -range +range @@'
FromFileHeader == <<"-", "-", "-", " ", "Original">>
ToFileHeader == <<"+", "+", "+", " ", "Updated">>
HunkHeader(a, b) ==
    <<"@", "@", " ", "-", FormatRangeUnified(0, Len(a)), " ", "+", FormatRangeUnified(0, Len(b)), " ", "@", "@">>

\* difflib.unified_diff(a, b, fromfile="Original", tofile="Updated",
\* lineterm=''): nothing for equal contents; contents of up to four lines
\* make one hunk that holds every line
UnifiedDiff(a, b) ==
    IF a = b THEN <<>>
    ELSE <<FromFileHeader, ToFileHeader, HunkHeader(a, b)>> \o DiffBody(a, b, 1, Len(a), 1, Len(b))

\* line.startswith('---'), line.startswith('+++')
LineStartsWith(line, c) == Len(line) >= 3 /\ \A n \in 1..3 : line[n] = c

\* diff_text of DiffDialog.__init__
DiffText(old_content, new_content) ==
    SelectSeq(UnifiedDiff(old_content, new_content),
              LAMBDA line : ~LineStartsWith(line, "-") /\ ~LineStartsWith(line, "+"))

\* DiffDialog(parent, message, old_content, new_content)
DiffDialogInit ==
    /\ call = NoCall
    /\ \E old_content \in Contents, new_content \in Contents :
        call' = [fn |-> "DiffDialog", old_content |-> old_content, new_content |-> new_content,
                 diff_text |-> DiffText(old_content, new_content)]
    /\ UNCHANGED <<variant, state, srvProc, hasQueues, pollTimer, chat, retry, cstack, ws, baseline,
                   uncaught, resumes, sigmund_token, queueVars, bridgeVars, envVars, ghostVars>>

InitDiff == InitOf({"dock"}, Scripts)
SpecDiff == InitDiff /\ [][DiffDialogInit]_vars

\* C26: the text the dialog presents is the unified diff of the old and
\* the new content without its two file-header lines, and only without
\* those: each line the diff removes from the old content and each line it
\* adds from the new content is in the text, whatever the line starts with.
C26_OnlyFileHeadersRemoved ==
    call.fn = "DiffDialog" =>
        LET diff_lines == UnifiedDiff(call.old_content, call.new_content) IN
        call.diff_text = IF diff_lines = <<>> THEN <<>> ELSE SubSeq(diff_lines, 3, Len(diff_lines))

\* C27: when the dock widget dispatches an ai_message, exactly one agent
\* message is appended and the input is enabled while set() has not been
\* called yet and the workspace is as it was; when it dispatches a
\* cancel_message, the input is enabled and nothing is appended; the session
\* state stays as it is in both.
C27_Step ==
    /\ (variant = "dock" /\ DispatchesAction("ai_message"))
        => /\ chat'.msgs = Append(chat.msgs, "ai")
           /\ chat'.enabled
           /\ UNCHANGED <<state, lastSet, ws>>
    /\ (variant = "dock" /\ DispatchesAction("cancel_message"))
        => /\ chat'.msgs = chat.msgs
           /\ chat'.enabled
           /\ UNCHANGED state
C27_AiAndCancel == [][C27_Step]_vars

\* the user sent a message and the client's cancel_message, the one frame
\* dispatched so far, enabled the input again
C27_Witness ==
    /\ variant = "dock" /\ script[1] = CancelFrame /\ nDisp = 1
    /\ nSends = 1 /\ state = "connected"
    /\ chat.exists /\ chat.enabled /\ chat.msgs = <<>>

\* C28: when the dock widget dispatches a token envelope, the envelope's
\* message becomes the stored credential, and session state, conversation,
\* input-enabled flag, outbound queue and retry budget stay as they are.
C28_Step ==
    (variant = "dock" /\ DispatchesAction("token"))
        => /\ sigmund_token' = JsonLoads(Head(inbound)).message
           /\ UNCHANGED <<state, chat, outbound, retry>>
C28_TokenStored == [][C28_Step]_vars

\* the client's token envelope, its second frame, was dispatched
C28_Witness ==
    /\ variant = "dock" /\ script[2] = TokenFrame /\ nDisp = 2
    /\ sigmund_token = "secret"

(***************************************************************************)
(* The poll call as a whole: _poll_server_queue of dock_widget.py and      *)
(* poll_server_queue of sigmund.py take what is on to_main_queue in one    *)
(* call, a diff dialog that opens on the way is answered before the call   *)
(* goes on.                                                                *)
(***************************************************************************)
\* a binary frame: read_task puts the bytes object it received
BinaryFrame == [pre |-> "bytes", more |-> TRUE, val |-> JSONDecodeError, src |-> "client", n |-> 0]

\* isinstance(msg, str)
IsStr(msg) == msg.pre # "bytes"

PollScripts ==
    { [i \in 1..ScriptLen |-> AiFrame(<<"b">>)],
      [i \in 1..ScriptLen |-> IF i = 1 THEN BinaryFrame ELSE AiFrame(<<"a">>)] }

\* the while loop over the items on the queue; the user answers every
\* dialog of the call with accepted and every set() of the call ends as
\* setOk says; an exception leaves the loop
RECURSIVE PollLoop(_, _, _, _)
PollLoop(k, queue, accepted, setOk) ==
    IF queue = <<>> \/ k.raised THEN [k |-> k, queue |-> queue]
    ELSE LET msg == Head(queue)
             k1 == IF ~IsStr(msg) THEN k
                   ELSE IF variant = "dock" THEN HandleIncomingRaw(k, msg)
                   ELSE PollServerQueue(k, msg, setOk)
             k2 == IF Len(k1.cstack) > Len(k.cstack)
                   THEN DialogReturns(k1, accepted, setOk)
                   ELSE k1
         IN  PollLoop(k2, Tail(queue), accepted, setOk)

\* _poll_server_queue / poll_server_queue
PollServerQueueCall(k, queue, accepted, setOk) ==
    IF ~hasQueues THEN [k |-> k, queue |-> queue]
    ELSE PollLoop(k, queue, accepted, setOk)

\* ghost: the number of the last client frame among the items taken
RECURSIVE LastClientFrame(_, _)
LastClientFrame(taken, n) ==
    IF taken = <<>> THEN n
    ELSE LastClientFrame(Tail(taken), IF Head(taken).src = "client" THEN Head(taken).n ELSE n)

\* the poll timer fires in the top-level event loop and the call runs to
\* its end
PollOnce ==
    /\ pollTimer
    /\ cstack = <<>>
    /\ inbound # <<>>
    /\ \E accepted \in BOOLEAN, setOk \in BOOLEAN :
        LET r == PollServerQueueCall(Ctl, inbound, accepted, setOk) IN
        /\ ApplyCtl(r.k)
        /\ uncaught' = (uncaught \/ r.k.raised)
        /\ inbound' = r.queue
        /\ nDisp' = LastClientFrame(SubSeq(inbound, 1, Len(inbound) - Len(r.queue)), nDisp)
    /\ startPair' = NoPair
    /\ UNCHANGED <<variant, call, resumes, cstack, srvProc, hasQueues, pollTimer, bridgeVars, envVars, fifo,
                   nStarts, nSends>>

InitPoll == InitOf({"dock", "ext"}, PollScripts)

NextPoll ==
    \/ BridgeNext
    \/ StartServer
    \/ Activate
    \/ UserSends
    \/ PollOnce

SpecPoll == InitPoll /\ [][NextPoll]_vars

\* a poll call that found items on inbound returns
PollReturns == NoRestart /\ Len(inbound') < Len(inbound)

\* C29: a poll call made before the server was started or when inbound is
\* empty changes nothing; a call that finds items leaves none of them on
\* inbound, each one taken and dispatched; a call that finds only items
\* that are not strings changes nothing but the queue.
C29_Step ==
    PollReturns =>
        /\ inbound' = <<>>
        /\ (\A i \in 1..Len(inbound) : ~IsStr(inbound[i]))
              => UNCHANGED <<state, chat, outbound, retry, ws, baseline, sigmund_token, uncaught>>
C29_PollOnce ==
    /\ []((~hasQueues \/ inbound = <<>>) =>
            \A accepted \in BOOLEAN, setOk \in BOOLEAN :
                PollServerQueueCall(Ctl, inbound, accepted, setOk) = [k |-> Ctl, queue |-> inbound])
    /\ [][C29_Step]_vars

(***************************************************************************)
(* has_changed and strip_content of the workspace collaborators:           *)
(* WorkspaceManager (opensesame_workspace.py) against its snapshot         *)
(* self.content, EditorWorkspace (example_standalone.py) against the text  *)
(* of its editor                                                           *)
(***************************************************************************)
\* the lines of a workspace content; "I" is a line that starts with
\* '# Important instructions:'
WorkspaceLines == {"a", "b", "I"}
WorkspaceTexts == UNION { [1..n -> WorkspaceLines] : n \in 0..MaxLines }
WorkspaceContents == WorkspaceTexts \cup {NoneContent}

\* EditorWorkspace.strip_content
EditorStripContent(content) == IF content = NoneContent THEN <<>> ELSE content

\* EditorWorkspace.has_changed
EditorHasChanged(content, editor_content) ==
    IF content \in {editor_content, EditorStripContent(editor_content)} THEN FALSE ELSE TRUE

\* has_changed(content, language) is called on a WorkspaceManager whose
\* snapshot is base
WorkspaceManagerHasChanged ==
    /\ call = NoCall
    /\ \E content \in WorkspaceContents, base \in WorkspaceContents :
        call' = [fn |-> "has_changed", cls |-> "WorkspaceManager", content |-> content,
                 base |-> base, result |-> HasChanged(content, base)]
    /\ UNCHANGED <<variant, state, srvProc, hasQueues, pollTimer, chat, retry, cstack, ws, baseline,
                   uncaught, resumes, sigmund_token, queueVars, bridgeVars, envVars, ghostVars>>

\* has_changed(content, language) is called on an EditorWorkspace whose
\* editor holds the text base
EditorWorkspaceHasChanged ==
    /\ call = NoCall
    /\ \E content \in WorkspaceContents, base \in WorkspaceTexts :
        call' = [fn |-> "has_changed", cls |-> "EditorWorkspace", content |-> content,
                 base |-> base, result |-> EditorHasChanged(content, base)]
    /\ UNCHANGED <<variant, state, srvProc, hasQueues, pollTimer, chat, retry, cstack, ws, baseline,
                   uncaught, resumes, sigmund_token, queueVars, bridgeVars, envVars, ghostVars>>

InitWorkspace == InitOf({"dock"}, Scripts)
NextWorkspace == WorkspaceManagerHasChanged \/ EditorWorkspaceHasChanged
SpecWorkspace == InitWorkspace /\ [][NextWorkspace]_vars

\* C30: has_changed returns false exactly when the content is empty or
\* null, or is the baseline as it stands, or is the baseline without its
\* lines that start with '# Important instructions:' (a null baseline
\* counting as the empty text); it returns true in every other case.
C30_HasChanged ==
    call.fn = "has_changed" =>
        LET stripped == IF call.base = NoneContent THEN <<>>
                        ELSE SelectSeq(call.base, LAMBDA line : line # "I")
        IN  call.result = ~(\/ call.content \in {EmptyContent, NoneContent}
                            \/ call.content = call.base
                            \/ call.content = stripped)

(***************************************************************************)
(* The requests to continue of OpenSesameSigmundWidget, with a client that *)
(* connects once and answers MaxTodo times                                 *)
(***************************************************************************)
MaxTodo == 4

ResumeScripts ==
    { [i \in 1..MaxTodo |-> TodoFrame(<<"a">>)],
      [i \in 1..MaxTodo |-> IF i = 1 THEN TodoFrame(<<"b">>)
                            ELSE IF i = 2 THEN AiFrame(<<"a">>)
                            ELSE TodoFrame(<<"a">>)] }

InitResumes == InitOf({"widget"}, ResumeScripts)

\* the bridge with the one connection the client makes
BridgeOneClient ==
    \/ BridgeStartOk
    \/ BridgeStartFail
    \/ Connect(1)
    \/ ServerHandler(1)
    \/ ReadTask(1)
    \/ ReadTaskEnds(1)
    \/ WriteTaskSend(1)
    \/ WriteTaskEnds(1)
    \/ EchoReturns(1)
    \/ BlockingQueueGet

NextResumes == BridgeOneClient \/ WidgetNext

SpecResumes == InitResumes /\ [][NextResumes]_vars

\* a request to continue is put on outbound
Continues ==
    /\ Len(outbound') = Len(outbound) + 1
    /\ JsonLoads(outbound'[Len(outbound')]).message = "continue"

\* C31: the requests to continue sent since the user's last message are
\* never more than N_MAX_RESUMES and the counter stays within
\* 0..N_MAX_RESUMES; a request is sent only in the handling of an ai_message
\* whose text holds an unticked todo item, at its dispatch or when its diff
\* dialog returns, only when that handling did not resubmit an error, and
\* only with a positive counter, which it lowers by one; nothing else lowers
\* the counter and only the user's message raises it, to N_MAX_RESUMES.
C31_Step ==
    /\ Continues =>
        /\ resumes > 0 /\ resumes' = resumes - 1
        /\ attempt'.resubs = attempt.resubs
        /\ \/ DispatchesAction("ai_message") /\ JsonLoads(Head(inbound)).message = "todo"
           \/ cstack # <<>> /\ cstack' = Pop(cstack) /\ Top(cstack).message = "todo"
    /\ resumes' # resumes => (Continues \/ (resumes' = N_MAX_RESUMES /\ attempt'.resumed = 0))
C31_BoundedResumes ==
    /\ [](resumes \in 0..N_MAX_RESUMES /\ attempt.resumed <= N_MAX_RESUMES)
    /\ [][C31_Step]_vars

\* three requests were sent after the user's message, and the agent's
\* fourth unfinished reply was dispatched without one
C31_Witness ==
    /\ variant = "widget" /\ script[1] = TodoFrame(<<"a">>) /\ nDisp = MaxTodo
    /\ nSends = 1 /\ resumes = 0 /\ attempt.resumed = N_MAX_RESUMES
    /\ Count(chat.msgs, "ai") = MaxTodo

(***************************************************************************)
(* The automatic messages of OpenSesameSigmundWidget with an agent that    *)
(* answers every message with a text that announces a tool and calls none  *)
(***************************************************************************)
\* the most automatic messages the counters allow after a message of the
\* user: N_MAX_RESUMES requests to continue, and DefaultRetry resubmissions
\* for the user's message and for each of the requests
AutoBound == N_MAX_RESUMES + (N_MAX_RESUMES + 1) * DefaultRetry
MaxTool == AutoBound + 1

ReminderScripts ==
    { [i \in 1..MaxTool |-> ToolFrame(<<"a">>)],
      [i \in 1..MaxTool |-> IF i = MaxTool THEN ToolFrame(<<"b">>) ELSE ToolFrame(<<"a">>)] }

InitReminders == InitOf({"widget"}, ReminderScripts)

SpecReminders == InitReminders /\ [][NextResumes]_vars

\* C32: the messages the controller has sent on its own since the user's
\* last message (resubmitted errors, requests to continue and reminders of
\* a missing tool call) are never more than the counters allow, however
\* often the agent answers with a text that announces a tool.
C32_BoundedAutomaticMessages ==
    attempt.resubs + attempt.resumed + attempt.reminded <= AutoBound

\* the bridge takes the oldest envelope from outbound
TakesFromOutbound ==
    /\ NoRestart
    /\ outbound # <<>> /\ outbound' = Tail(outbound)
    /\ getters # <<>> /\ getters' = Tail(getters)

\* C33: every envelope the bridge takes from outbound is in the hands of
\* the write loop of the connection that is live at that moment, which
\* sends it as the next frame; none is taken for a connection that is gone,
\* also when an earlier connection's write loop was cancelled while it
\* waited for an envelope.
C33_Step ==
    TakesFromOutbound =>
        \E c \in ConnIds :
            /\ Live(c)
            /\ conns'[c].w = "send"
            /\ conns'[c].hand = Head(outbound)
C33_NoEnvelopeLost == [][C33_Step]_vars

\* write_task sends the envelope in its hand as a frame to connection c
SendsFrame(c) ==
    /\ NoRestart
    /\ Live(c)
    /\ conns[c].w = "send"
    /\ conns'[c].w = "get"

\* C34: every frame sent to a client is an envelope that was put on
\* outbound after that client's CLIENT_CONNECTED was pushed; an envelope put
\* while no client was connected, or during an earlier connection, is never
\* sent to a later connection.
C34_Step == \A c \in ConnIds : SendsFrame(c) => fresh.hand
IsLifecycle(m) == m.src = "bridge" /\ m.pre \in {"CLIENT_CONNECTED", "CLIENT_DISCONNECTED"}
LifecycleTokens == SelectSeq(inbound, IsLifecycle)

\* C35: the lifecycle tokens pushed by the bridge alternate CLIENT_CONNECTED,
\* CLIENT_DISCONNECTED, beginning with CLIENT_CONNECTED, each pair for one
\* connection; a client frame is pushed only while its connection is live,
\* after that connection's CLIENT_CONNECTED and before its
\* CLIENT_DISCONNECTED, also when the write loop has ended first and the
\* read loop is about to be cancelled.
C35_Queue ==
    /\ client_connected <=> \E c \in ConnIds : Live(c)
    /\ \A i \in 1..(Len(LifecycleTokens) - 1) :
        /\ LifecycleTokens[i].pre # LifecycleTokens[i + 1].pre
        /\ LifecycleTokens[i].pre = "CLIENT_CONNECTED" => LifecycleTokens[i + 1].n = LifecycleTokens[i].n
    /\ LifecycleTokens # <<>> =>
        (client_connected <=> LifecycleTokens[Len(LifecycleTokens)].pre = "CLIENT_CONNECTED")
    /\ \A i \in 2..Len(inbound) :
        inbound[i].src = "client" => ~IsExactly(inbound[i - 1], "CLIENT_DISCONNECTED")
C35_Step ==
    /\ \A c \in ConnIds :
        /\ Pushed(Sentinel("CLIENT_CONNECTED", "bridge", c)) =>
            (~client_connected /\ client_connected' /\ ~Live(c) /\ Live(c)')
        /\ Pushed(Sentinel("CLIENT_DISCONNECTED", "bridge", c)) =>
            (client_connected /\ ~client_connected' /\ Live(c) /\ ~Live(c)')
    /\ (client_connected' # client_connected /\ NoRestart) =>
        \E c \in ConnIds :
            \/ Pushed(Sentinel("CLIENT_CONNECTED", "bridge", c))
            \/ Pushed(Sentinel("CLIENT_DISCONNECTED", "bridge", c))
    /\ ~NoRestart => (~client_connected' /\ inbound' = <<>>)
    /\ nRead' # nRead =>
        \E c \in ConnIds :
            /\ Live(c) /\ Live(c)'
            /\ client_connected /\ client_connected'
            /\ \A i \in 1..Len(inbound) : inbound[i] # Sentinel("CLIENT_DISCONNECTED", "bridge", c)
C35_LifecycleAlternates == [](C35_Queue) /\ [][C35_Step]_vars

\* the write loop of the second connection has ended first, its read loop
\* still runs and has pushed a frame behind the tokens of both connections
C35_Witness ==
    /\ Live(2) /\ conns[2].w = "done" /\ conns[2].r = "run"
    /\ Len(inbound) >= 3
    /\ inbound[Len(inbound)].src = "client"
    /\ inbound[Len(inbound) - 1] = Sentinel("CLIENT_CONNECTED", "bridge", 2)
    /\ inbound[Len(inbound) - 2] = Sentinel("CLIENT_DISCONNECTED", "bridge", 1)

\* C36: whenever the bridge is running, inbound is empty and no dispatch is
\* under way, the session state is connected if and only if the
\* ConnectionSlot is occupied.
C36_ViewAgrees ==
    (bridge = "running" /\ inbound = <<>> /\ cstack = <<>>)
        => (state = "connected" <=> client_connected)

\* C37: the session state changes only in a step that is a start of the
\* server or the dispatch of a token that the bridge itself pushed; the
\* dispatch of a frame relayed from the client, whatever its text, leaves
\* the state as it was.
C37_Step ==
    state' # state =>
        \/ ~NoRestart
        \/ /\ pollTimer /\ inbound # <<>> /\ inbound' = Tail(inbound)
           /\ Head(inbound).src = "bridge"
C37_StateFollowsBridgeOnly == [][C37_Step]_vars

\* C38: after the CLIENT_CONNECTED of the bridge is dispatched the chat
\* widget exists and accepts input: a new connection does not begin with
\* the input disabled by a send of an earlier connection.
C38_Step ==
    (Dispatches("CLIENT_CONNECTED", TRUE) /\ Head(inbound).src = "bridge")
        => (chat'.exists /\ chat'.enabled)
C38_InputEnabledOnConnect == [][C38_Step]_vars

\* C39: while the handler of an ai_message waits for the answer to the diff
\* dialog, no item is taken from inbound or dispatched and the session state
\* stays as it is: the periodic poll is not entered again before the dialog
\* returns.
C39_Step ==
    cstack # <<>> =>
        /\ Len(inbound') >= Len(inbound)
        /\ nDisp' = nDisp
        /\ state' = state
====
